---- MODULE Spec2Model ----
(***************************************************************************)
(* Change-control approval workflow (workflow.py, utils.py, models.py).   *)
(*                                                                         *)
(* The database tables are the variables: one row set (or row function)    *)
(* per Django model.  Every workflow function of workflow.py is an action  *)
(* that runs the whole function, nested calls included, and records in     *)
(* `last` whether the call returned or raised.  The functions run without  *)
(* a transaction, so a call that raises half-way keeps the rows it has     *)
(* already saved.                                                          *)
(***************************************************************************)
EXTENDS Integers, Sequences, FiniteSets, TLC

\* ---------------------------------------------------------------- bounds
MaxHistory == 8
MaxEvaluatorEntries == 2
MaxActionPlans == 1
MaxCalls == 2
MaxPairHistory == 11
MaxGateHistory == 11

\* ------------------------------------------------------------- constants
None == "None"

DRAFT == "Draft"
PENDING_DEPT_HEAD == "Pending_Dept_Head"
PENDING_QA_REGISTRATION == "Pending_QA_Registration"
PENDING_CFT_EVALUATION == "Pending_CFT_Evaluation"
PENDING_RISK_ASSESSMENT == "Pending_Risk_Assessment"
PENDING_DOCUMENT_UPDATE == "Pending_Document_Update"
PENDING_ACTION_PLAN == "Pending_Action_Plan"
PENDING_QA_EVALUATION == "Pending_QA_Evaluation"
PENDING_QA_HEAD_APPROVAL == "Pending_QA_Head_Approval"
PENDING_VERIFICATION == "Pending_Verification"
CLOSED == "Closed"
REJECTED == "Rejected"

StatusChoices ==
  { DRAFT, PENDING_DEPT_HEAD, PENDING_QA_REGISTRATION, PENDING_CFT_EVALUATION,
    PENDING_RISK_ASSESSMENT, PENDING_DOCUMENT_UPDATE, PENDING_ACTION_PLAN,
    PENDING_QA_EVALUATION, PENDING_QA_HEAD_APPROVAL, PENDING_VERIFICATION,
    CLOSED, REJECTED }

MINOR == "Minor"
MAJOR == "Major"
CRITICAL == "Critical"
ImpactLevelChoices == { MINOR, MAJOR, CRITICAL }

DecisionChoices == { "Approved", "Approved_with_Conditions", "Rejected", "Pending" }

\* sub-record status values (RiskAssessment, DocumentRevision, ActionPlan)
SUB_PENDING == "Pending"
SUB_IN_PROGRESS == "In_Progress"
SUB_COMPLETED == "Completed"

\* ------------------------------------------------------------ the actors
Users == { "u1", "u2" }
Departments == { "QA", "PD" }
\* Department.head is nullable: QA is headed by u1, PD has no head
head == [ d \in Departments |-> IF d = "QA" THEN "u1" ELSE None ]

\* the only request the model follows; other requests are rows of `store`
RequestIds == { 1 }

\* --------------------------------------------------- tracking identifiers
\* "REQ/CC/<yy>/<dept>/<seq>": seq is the text after the last '/', a
\* sequence of characters; 0..9 are the digits, NonDigit any other character.
current_year == 26
NonDigit == 10
NoNumber == [ yy |-> 0, dept |-> "", seq |-> << >> ]

RECURSIVE str(_)
str(n) == IF n < 10 THEN << n >> ELSE Append(str(n \div 10), n % 10)

zfill(s, width) ==
  IF Len(s) >= width THEN s ELSE [ i \in 1..(width - Len(s)) |-> 0 ] \o s

\* int(sequence_part) raises ValueError unless every character is a digit
IsInt(s) == Len(s) > 0 /\ \A i \in 1..Len(s) : s[i] \in 0..9

RECURSIVE int(_)
int(s) == IF Len(s) = 0 THEN 0 ELSE 10 * int(SubSeq(s, 1, Len(s) - 1)) + s[Len(s)]

\* startswith comparing the department code only
startswith_any_year(number, yy, dept) == number.dept = dept

\* temporary_cc_number__startswith=prefix, prefix = "REQ/CC/<yy>/<dept>/"
startswith(number, yy, dept) == number.yy = yy /\ number.dept = dept

RECURSIVE Max(_)
Max(S) == IF S = {} THEN 0
          ELSE LET x == CHOOSE y \in S : TRUE
                   m == Max(S \ {x})
               IN IF x > m THEN x ELSE m

\* the next sequence taken from the number of identifiers, not their maximum
next_number_count(existing, dept) ==
  LET sequences == { int(n.seq) : n \in { m \in existing :
                         startswith(m, current_year, dept) /\ IsInt(m.seq) } }
      max_sequence == Cardinality(sequences)
  IN [ yy |-> current_year, dept |-> dept, seq |-> zfill(str(max_sequence + 1), 5) ]

next_number(existing, dept) ==
  LET sequences == { int(n.seq) : n \in { m \in existing :
                         startswith(m, current_year, dept) /\ IsInt(m.seq) } }
      max_sequence == Max(sequences)
  IN [ yy |-> current_year, dept |-> dept, seq |-> zfill(str(max_sequence + 1), 5) ]

VARIABLES
  requests,            \* ChangeControlRequest rows, pk -> row
  cft_evaluators,      \* CFTEvaluator rows
  cft_evaluations,     \* CFTEvaluation rows
  risk_assessments,    \* RiskAssessment rows
  document_revisions,  \* DocumentRevision rows
  action_plans,        \* ActionPlan rows, a sequence (pk = index)
  workflow_history,    \* WorkflowHistory rows in insertion order
  store,               \* tracking numbers of the other ChangeControlRequest rows
  last,                \* the last workflow call and how it ended
  calls                \* workflow calls in progress: position and local variables

vars == << requests, cft_evaluators, cft_evaluations, risk_assessments,
           document_revisions, action_plans, workflow_history, store, last,
           calls >>

tables == << requests, cft_evaluators, cft_evaluations, risk_assessments,
             document_revisions, action_plans, workflow_history >>

\* the tables a workflow function reads and writes
DB == [ requests |-> requests, cft_evaluators |-> cft_evaluators,
        cft_evaluations |-> cft_evaluations, risk_assessments |-> risk_assessments,
        document_revisions |-> document_revisions, action_plans |-> action_plans,
        workflow_history |-> workflow_history ]

Returned(db) == [ db |-> db, result |-> "ok" ]
Raised(db, error) == [ db |-> db, result |-> error ]

\* generate_temp_cc_number / generate_final_cc_number read every request row
temp_numbers(db) ==
  { s.temporary_cc_number : s \in store }
    \cup { db.requests[r].temporary_cc_number : r \in DOMAIN db.requests }

final_numbers(db) ==
  ({ s.final_cc_number : s \in store }
    \cup { db.requests[r].final_cc_number : r \in DOMAIN db.requests }) \ { NoNumber }

generate_temp_cc_number(db, department_code) ==
  next_number(temp_numbers(db), department_code)

generate_final_cc_number(db, department_code) ==
  next_number(final_numbers(db),
              IF department_code = None THEN "GEN" ELSE department_code)

\* ------------------------------------------------------------ audit log
\* log_workflow_history writing over the newest entry instead of adding one
log_workflow_history_overwrite(db, r, step, previous_status, new_status) ==
  LET entry == [ request |-> r, step |-> step,
                 previous_status |-> IF previous_status = None
                                     THEN db.requests[r].status ELSE previous_status,
                 new_status |-> IF new_status = None
                                THEN db.requests[r].status ELSE new_status ]
  IN [ db EXCEPT !.workflow_history =
         IF Len(@) = 0 THEN << entry >> ELSE [ @ EXCEPT ![Len(@)] = entry ] ]

\* WorkflowHistory.objects.create(...)
log_workflow_history(db, r, step, previous_status, new_status) ==
  [ db EXCEPT !.workflow_history = Append(@,
      [ request |-> r, step |-> step,
        previous_status |-> IF previous_status = None
                            THEN db.requests[r].status ELSE previous_status,
        new_status |-> IF new_status = None
                       THEN db.requests[r].status ELSE new_status ]) ]

\* rows of one request
evaluators_of(db, r) == { e \in db.cft_evaluators : e.request = r }
\* evaluations_of without the filter on the request
evaluations_of_any_request(db, r) == db.cft_evaluations

evaluations_of(db, r) == { e \in db.cft_evaluations : e.request = r }
has_risk_assessment(db, r) == \E a \in db.risk_assessments : a.request = r
risk_assessment_of(db, r) == CHOOSE a \in db.risk_assessments : a.request = r

\* ------------------------------------------------------------ step 1, 2
route_to_dept_head(db, r) ==
  IF db.requests[r].status # DRAFT THEN Raised(db, "ValidationError")
  ELSE IF head[db.requests[r].department] = None THEN Raised(db, "ValidationError")
  ELSE LET previous_status == db.requests[r].status
           saved == [ db EXCEPT !.requests[r].status = PENDING_DEPT_HEAD,
                                !.requests[r].current_step = 2 ]
       IN Returned(log_workflow_history(saved, r, 2, previous_status,
                                        saved.requests[r].status))

new_request(temp_cc_number, user, department) ==
  [ temporary_cc_number |-> temp_cc_number,
    final_cc_number |-> NoNumber,
    initiator |-> user,
    department |-> department,
    impact_level |-> None,
    qa_registered_by |-> None,
    status |-> DRAFT,
    current_step |-> 1,
    closed_at |-> None,
    rejection_reason |-> "",
    rejected_by |-> None,
    rejected_at |-> None ]

initiate_request(db, r, user, department) ==
  IF department = None THEN Raised(db, "ValidationError")
  ELSE LET temp_cc_number == generate_temp_cc_number(db, department)
           created == [ db EXCEPT !.requests =
                          [ p \in DOMAIN db.requests \cup { r } |->
                              IF p = r THEN new_request(temp_cc_number, user, department)
                              ELSE db.requests[p] ] ]
           logged == log_workflow_history(created, r, 1, None, None)
       IN route_to_dept_head(logged, r)

\* dept_head_decision storing the reason as given, without the default text
dept_head_decision_no_default(db, r, actor, approved, rejection_reason) ==
  IF db.requests[r].status # PENDING_DEPT_HEAD THEN Raised(db, "ValidationError")
  ELSE IF head[db.requests[r].department] # actor THEN Raised(db, "ValidationError")
  ELSE LET previous_status == db.requests[r].status
       IN IF approved
          THEN LET moved == [ db EXCEPT !.requests[r].status = PENDING_QA_REGISTRATION,
                                        !.requests[r].current_step = 3 ]
               IN Returned(log_workflow_history(moved, r, 2, previous_status,
                                                moved.requests[r].status))
          ELSE LET moved == [ db EXCEPT
                     !.requests[r].status = REJECTED,
                     !.requests[r].rejection_reason =
                         rejection_reason,
                     !.requests[r].rejected_by = actor,
                     !.requests[r].rejected_at = "now",
                     !.requests[r].current_step = 2 ]
               IN Returned(log_workflow_history(moved, r, 2, previous_status,
                                                moved.requests[r].status))

dept_head_decision(db, r, actor, approved, rejection_reason) ==
  IF db.requests[r].status # PENDING_DEPT_HEAD THEN Raised(db, "ValidationError")
  ELSE IF head[db.requests[r].department] # actor THEN Raised(db, "ValidationError")
  ELSE LET previous_status == db.requests[r].status
       IN IF approved
          THEN LET moved == [ db EXCEPT !.requests[r].status = PENDING_QA_REGISTRATION,
                                        !.requests[r].current_step = 3 ]
               IN Returned(log_workflow_history(moved, r, 2, previous_status,
                                                moved.requests[r].status))
          ELSE LET moved == [ db EXCEPT
                     !.requests[r].status = REJECTED,
                     !.requests[r].rejection_reason =
                         IF rejection_reason = "" THEN "Rejected by department head"
                         ELSE rejection_reason,
                     !.requests[r].rejected_by = actor,
                     !.requests[r].rejected_at = "now",
                     !.requests[r].current_step = 2 ]
               IN Returned(log_workflow_history(moved, r, 2, previous_status,
                                                moved.requests[r].status))

\* ---------------------------------------------------------------- step 3
\* the loop over cft_evaluators: CFTEvaluator.objects.get_or_create looks the
\* row up by (request, department, evaluator) and inserts it when absent; the
\* insert violates unique_together (request, department) when the department
\* is already assigned to another evaluator
RECURSIVE assign_cft_evaluators(_, _, _)
assign_cft_evaluators(db, r, entries) ==
  IF entries = << >> THEN Returned(db)
  ELSE LET evaluator_data == Head(entries)
           row == [ request |-> r, department |-> evaluator_data.department,
                    evaluator |-> evaluator_data.evaluator ]
       IN IF evaluator_data.department = None \/ evaluator_data.evaluator = None
          THEN assign_cft_evaluators(db, r, Tail(entries))
          ELSE IF row \in db.cft_evaluators
          THEN assign_cft_evaluators(db, r, Tail(entries))
          ELSE IF \E e \in db.cft_evaluators :
                    e.request = r /\ e.department = evaluator_data.department
          THEN Raised(db, "IntegrityError")
          ELSE assign_cft_evaluators(
                 [ db EXCEPT !.cft_evaluators = @ \cup { row } ], r, Tail(entries))

\* all_evaluators.count() == all_evaluations.count()
all_evaluations_in(db, r) ==
  Cardinality(evaluators_of(db, r)) = Cardinality(evaluations_of(db, r))

create_risk_assessment(db, r, actor, assigned_to) ==
  IF has_risk_assessment(db, r) THEN db
  ELSE LET assignee == IF assigned_to # None THEN assigned_to
                       ELSE IF db.requests[r].qa_registered_by # None
                            THEN db.requests[r].qa_registered_by ELSE actor
           created == [ db EXCEPT !.risk_assessments = @ \cup
                          { [ request |-> r, assigned_to |-> assignee,
                              status |-> SUB_PENDING, completion_date |-> None ] } ]
           moved == IF created.requests[r].status = PENDING_CFT_EVALUATION
                       /\ all_evaluations_in(created, r)
                    THEN [ created EXCEPT !.requests[r].status = PENDING_RISK_ASSESSMENT,
                                          !.requests[r].current_step = 5 ]
                    ELSE created
       IN log_workflow_history(moved, r, 5, None, None)

\* final_number_taken without the look-up of the other requests
final_number_taken_never(db, r, number) == FALSE

\* ChangeControlRequest.objects.filter(final_cc_number=...).exclude(pk=request.pk).exists()
final_number_taken(db, r, number) ==
  \/ \E s \in store : s.final_cc_number = number
  \/ \E p \in DOMAIN db.requests \ { r } : db.requests[p].final_cc_number = number

\* qa_registration creating the risk assessment for every impact level
qa_registration_always_assesses(db, r, actor, final_cc_number, impact_level, cft_evaluator_list) ==
  IF db.requests[r].status # PENDING_QA_REGISTRATION THEN Raised(db, "ValidationError")
  ELSE IF impact_level \notin ImpactLevelChoices THEN Raised(db, "ValidationError")
  ELSE LET previous_status == db.requests[r].status
           number == IF final_cc_number = NoNumber
                     THEN generate_final_cc_number(db, db.requests[r].department)
                     ELSE final_cc_number
       IN IF final_number_taken(db, r, number) THEN Raised(db, "ValidationError")
          ELSE LET saved == [ db EXCEPT
                     !.requests[r].final_cc_number = number,
                     !.requests[r].impact_level = impact_level,
                     !.requests[r].qa_registered_by = actor,
                     !.requests[r].status = PENDING_CFT_EVALUATION,
                     !.requests[r].current_step = 4 ]
                   assigned == assign_cft_evaluators(saved, r, cft_evaluator_list)
               IN IF assigned.result # "ok" THEN assigned
                  ELSE LET logged == log_workflow_history(assigned.db, r, 3,
                                       previous_status, assigned.db.requests[r].status)
                       IN IF TRUE
                          THEN Returned(create_risk_assessment(logged, r, actor, None))
                          ELSE Returned(logged)

qa_registration(db, r, actor, final_cc_number, impact_level, cft_evaluator_list) ==
  IF db.requests[r].status # PENDING_QA_REGISTRATION THEN Raised(db, "ValidationError")
  ELSE IF impact_level \notin ImpactLevelChoices THEN Raised(db, "ValidationError")
  ELSE LET previous_status == db.requests[r].status
           number == IF final_cc_number = NoNumber
                     THEN generate_final_cc_number(db, db.requests[r].department)
                     ELSE final_cc_number
       IN IF final_number_taken(db, r, number) THEN Raised(db, "ValidationError")
          ELSE LET saved == [ db EXCEPT
                     !.requests[r].final_cc_number = number,
                     !.requests[r].impact_level = impact_level,
                     !.requests[r].qa_registered_by = actor,
                     !.requests[r].status = PENDING_CFT_EVALUATION,
                     !.requests[r].current_step = 4 ]
                   assigned == assign_cft_evaluators(saved, r, cft_evaluator_list)
               IN IF assigned.result # "ok" THEN assigned
                  ELSE LET logged == log_workflow_history(assigned.db, r, 3,
                                       previous_status, assigned.db.requests[r].status)
                       IN IF impact_level \in { MAJOR, CRITICAL }
                          THEN Returned(create_risk_assessment(logged, r, actor, None))
                          ELSE Returned(logged)

\* ---------------------------------------------------------------- step 4
\* any_rejected looking at every row instead of any row
any_rejected_all(db, r) == \A e \in evaluations_of(db, r) : e.decision = "Rejected"

\* all_evaluations.filter(decision=REJECTED).exists()
any_rejected(db, r) == \E e \in evaluations_of(db, r) : e.decision = "Rejected"

\* status_after_cft with the Minor shortcut lost
status_after_cft_no_skip(db, r) ==
  IF has_risk_assessment(db, r)
  THEN IF risk_assessment_of(db, r).status = SUB_COMPLETED
       THEN PENDING_DOCUMENT_UPDATE ELSE PENDING_RISK_ASSESSMENT
  ELSE PENDING_RISK_ASSESSMENT

\* status_after_cft without the look at the risk assessment
status_after_cft_no_risk(db, r) == PENDING_DOCUMENT_UPDATE

\* the status a request takes once every assigned department has a row
status_after_cft(db, r) ==
  IF db.requests[r].impact_level = MINOR THEN PENDING_DOCUMENT_UPDATE
  ELSE IF has_risk_assessment(db, r)
       THEN IF risk_assessment_of(db, r).status = SUB_COMPLETED
            THEN PENDING_DOCUMENT_UPDATE ELSE PENDING_RISK_ASSESSMENT
       ELSE PENDING_RISK_ASSESSMENT

cft_completion(db, r, actor) ==
  IF all_evaluations_in(db, r)
  THEN IF any_rejected(db, r)
       THEN [ db EXCEPT !.requests[r].status = REJECTED,
                        !.requests[r].rejection_reason = "Rejected during CFT evaluation",
                        !.requests[r].rejected_by = actor,
                        !.requests[r].rejected_at = "now" ]
       ELSE [ db EXCEPT !.requests[r].status = status_after_cft(db, r),
                        !.requests[r].current_step =
                           IF status_after_cft(db, r) = PENDING_DOCUMENT_UPDATE THEN 6 ELSE 5 ]
  ELSE db

\* upsert_evaluation as a plain create: the row found is not replaced
upsert_evaluation_insert(db, r, actor, department, impact_type, decision, risk_level) ==
  [ db EXCEPT !.cft_evaluations = @ \cup
      { [ request |-> r, department |-> department, evaluator |-> actor,
          impact_type |-> impact_type, decision |-> decision, risk_level |-> risk_level,
          completed_at |-> IF decision # "Pending" THEN "now" ELSE None ] } ]

\* CFTEvaluation.objects.get_or_create(request, department, defaults) and the
\* update of the row found
upsert_evaluation(db, r, actor, department, impact_type, decision, risk_level) ==
  LET existing == { e \in db.cft_evaluations : e.request = r /\ e.department = department }
      row == IF existing = {}
             THEN [ request |-> r, department |-> department, evaluator |-> actor,
                    impact_type |-> impact_type, decision |-> decision,
                    risk_level |-> risk_level,
                    completed_at |-> IF decision # "Pending" THEN "now" ELSE None ]
             ELSE [ (CHOOSE e \in existing : TRUE) EXCEPT
                    !.impact_type = impact_type, !.decision = decision,
                    !.risk_level = risk_level,
                    !.completed_at = IF decision # "Pending" THEN "now" ELSE @ ]
  IN [ db EXCEPT !.cft_evaluations = (@ \ existing) \cup { row } ]

\* cft_evaluation without the check that the actor is the assigned evaluator
cft_evaluation_unassigned(db, r, actor, department, impact_type, decision, risk_level) ==
  IF db.requests[r].status # PENDING_CFT_EVALUATION THEN Raised(db, "ValidationError")
  ELSE LET upserted == upsert_evaluation(db, r, actor, department, impact_type,
                                         decision, risk_level)
           logged == log_workflow_history(upserted, r, 4, None, None)
       IN Returned(cft_completion(logged, r, actor))

cft_evaluation(db, r, actor, department, impact_type, decision, risk_level) ==
  IF db.requests[r].status # PENDING_CFT_EVALUATION THEN Raised(db, "ValidationError")
  ELSE IF ~ \E e \in db.cft_evaluators :
              e.request = r /\ e.department = department /\ e.evaluator = actor
  THEN Raised(db, "ValidationError")
  ELSE LET upserted == upsert_evaluation(db, r, actor, department, impact_type,
                                         decision, risk_level)
           logged == log_workflow_history(upserted, r, 4, None, None)
       IN Returned(cft_completion(logged, r, actor))

\* ---------------------------------------------------------------- step 5
\* complete_risk_assessment without the check of the assignee
complete_risk_assessment_any_actor(db, r, actor) ==
  IF ~ has_risk_assessment(db, r) THEN Raised(db, "ValidationError")
  ELSE LET risk_assessment == risk_assessment_of(db, r)
       IN IF FALSE THEN Raised(db, "ValidationError")
          ELSE LET completed == [ risk_assessment EXCEPT !.status = SUB_COMPLETED,
                                                         !.completion_date = "now" ]
                   previous_status == db.requests[r].status
                   moved == [ db EXCEPT
                       !.risk_assessments = (@ \ { risk_assessment }) \cup { completed },
                       !.requests[r].status = PENDING_DOCUMENT_UPDATE,
                       !.requests[r].current_step = 6 ]
               IN Returned(log_workflow_history(moved, r, 5, previous_status,
                                                moved.requests[r].status))

complete_risk_assessment(db, r, actor) ==
  IF ~ has_risk_assessment(db, r) THEN Raised(db, "ValidationError")
  ELSE LET risk_assessment == risk_assessment_of(db, r)
       IN IF risk_assessment.assigned_to # actor THEN Raised(db, "ValidationError")
          ELSE LET completed == [ risk_assessment EXCEPT !.status = SUB_COMPLETED,
                                                         !.completion_date = "now" ]
                   previous_status == db.requests[r].status
                   moved == [ db EXCEPT
                       !.risk_assessments = (@ \ { risk_assessment }) \cup { completed },
                       !.requests[r].status = PENDING_DOCUMENT_UPDATE,
                       !.requests[r].current_step = 6 ]
               IN Returned(log_workflow_history(moved, r, 5, previous_status,
                                                moved.requests[r].status))

\* ---------------------------------------------------------------- step 6
\* DocumentRevision.objects.get_or_create per suggested document
\* document_management setting step 6 whatever the status
document_management_always_steps(db, r, actor, suggested_documents) ==
  IF db.requests[r].status \notin { PENDING_DOCUMENT_UPDATE, PENDING_ACTION_PLAN }
  THEN Raised(db, "ValidationError")
  ELSE LET missing == { n \in suggested_documents :
                          ~ \E d \in db.document_revisions :
                              d.request = r /\ d.document_name = n }
           created == [ db EXCEPT !.document_revisions = @ \cup
                          { [ request |-> r, document_name |-> n,
                              status |-> SUB_PENDING, revision_date |-> None ] :
                            n \in missing } ]
           stepped == IF TRUE
                      THEN [ created EXCEPT !.requests[r].current_step = 6 ]
                      ELSE created
       IN Returned(log_workflow_history(stepped, r, 6, None, None))

document_management(db, r, actor, suggested_documents) ==
  IF db.requests[r].status \notin { PENDING_DOCUMENT_UPDATE, PENDING_ACTION_PLAN }
  THEN Raised(db, "ValidationError")
  ELSE LET missing == { n \in suggested_documents :
                          ~ \E d \in db.document_revisions :
                              d.request = r /\ d.document_name = n }
           created == [ db EXCEPT !.document_revisions = @ \cup
                          { [ request |-> r, document_name |-> n,
                              status |-> SUB_PENDING, revision_date |-> None ] :
                            n \in missing } ]
           stepped == IF created.requests[r].status = PENDING_DOCUMENT_UPDATE
                      THEN [ created EXCEPT !.requests[r].current_step = 6 ]
                      ELSE created
       IN Returned(log_workflow_history(stepped, r, 6, None, None))

pending_revisions(db, r) ==
  { d \in db.document_revisions :
      d.request = r /\ d.status \in { SUB_PENDING, SUB_IN_PROGRESS } }

\* complete_document_revision without the check for remaining revisions
complete_document_revision_eager(db, r, actor, document_revision) ==
  LET completed == [ document_revision EXCEPT !.status = SUB_COMPLETED,
                                              !.revision_date = "now" ]
      saved == [ db EXCEPT !.document_revisions =
                   (@ \ { document_revision }) \cup { completed } ]
  IN IF saved.requests[r].status = PENDING_DOCUMENT_UPDATE
     THEN LET previous_status == saved.requests[r].status
              moved == [ saved EXCEPT !.requests[r].status = PENDING_ACTION_PLAN,
                                      !.requests[r].current_step = 7 ]
          IN Returned(log_workflow_history(moved, r, 6, previous_status,
                                           moved.requests[r].status))
     ELSE Returned(saved)

complete_document_revision(db, r, actor, document_revision) ==
  LET completed == [ document_revision EXCEPT !.status = SUB_COMPLETED,
                                              !.revision_date = "now" ]
      saved == [ db EXCEPT !.document_revisions =
                   (@ \ { document_revision }) \cup { completed } ]
  IN IF pending_revisions(saved, r) = {}
        /\ saved.requests[r].status = PENDING_DOCUMENT_UPDATE
     THEN LET previous_status == saved.requests[r].status
              moved == [ saved EXCEPT !.requests[r].status = PENDING_ACTION_PLAN,
                                      !.requests[r].current_step = 7 ]
          IN Returned(log_workflow_history(moved, r, 6, previous_status,
                                           moved.requests[r].status))
     ELSE Returned(saved)

\* ---------------------------------------------------------------- step 7
\* action_plan_management without its status check
action_plan_management_unguarded(db, r, actor, plans) ==
  LET created == [ db EXCEPT !.action_plans = @ \o
                     [ i \in 1..Len(plans) |->
                         [ request |-> r, responsible_person |-> plans[i],
                           status |-> SUB_PENDING, completion_date |-> None ] ],
                   !.requests[r].current_step = 7 ]
  IN Returned(log_workflow_history(created, r, 7, None, None))

action_plan_management(db, r, actor, plans) ==
  IF db.requests[r].status # PENDING_ACTION_PLAN THEN Raised(db, "ValidationError")
  ELSE LET created == [ db EXCEPT !.action_plans = @ \o
                          [ i \in 1..Len(plans) |->
                              [ request |-> r, responsible_person |-> plans[i],
                                status |-> SUB_PENDING, completion_date |-> None ] ],
                        !.requests[r].current_step = 7 ]
       IN Returned(log_workflow_history(created, r, 7, None, None))

\* complete_action_plan imports ActionPlan inside its own body, after the
\* first statement that uses the name; the module does not import it.  The
\* name is therefore an unbound local where the item is set to Completed.
ActionPlan_is_bound == FALSE

pending_actions(db, r) ==
  { i \in 1..Len(db.action_plans) :
      db.action_plans[i].request = r
      /\ db.action_plans[i].status \in { SUB_PENDING, SUB_IN_PROGRESS } }

complete_action_plan(db, r, actor, pk) ==
  IF db.action_plans[pk].responsible_person # actor THEN Raised(db, "ValidationError")
  ELSE IF ~ ActionPlan_is_bound THEN Raised(db, "UnboundLocalError")
  ELSE LET saved == [ db EXCEPT !.action_plans[pk].status = SUB_COMPLETED,
                                !.action_plans[pk].completion_date = "now" ]
       IN IF pending_actions(saved, r) = {}
          THEN LET previous_status == saved.requests[r].status
                   moved == [ saved EXCEPT !.requests[r].status = PENDING_QA_EVALUATION,
                                           !.requests[r].current_step = 8 ]
               IN Returned(log_workflow_history(moved, r, 7, previous_status,
                                                moved.requests[r].status))
          ELSE Returned(saved)

\* ------------------------------------------------------------ steps 8-11
\* qa_final_evaluation handing the request straight to verification
qa_final_evaluation_skips_head(db, r, actor, cft_complete, document_updates_complete, risk_assessment_closed, regulatory_filings_complete) ==
  IF db.requests[r].status # PENDING_QA_EVALUATION THEN Raised(db, "ValidationError")
  ELSE IF ~ cft_complete THEN Raised(db, "ValidationError")
  ELSE IF ~ document_updates_complete THEN Raised(db, "ValidationError")
  ELSE IF db.requests[r].impact_level \in { MAJOR, CRITICAL }
          /\ ( \/ ~ risk_assessment_closed
               \/ ~ has_risk_assessment(db, r)
               \/ risk_assessment_of(db, r).status # SUB_COMPLETED )
  THEN Raised(db, "ValidationError")
  ELSE LET previous_status == db.requests[r].status
           moved == [ db EXCEPT !.requests[r].status = PENDING_VERIFICATION,
                                !.requests[r].current_step = 10 ]
       IN Returned(log_workflow_history(moved, r, 8, previous_status,
                                        moved.requests[r].status))

qa_final_evaluation(db, r, actor, cft_complete, document_updates_complete, risk_assessment_closed, regulatory_filings_complete) ==
  IF db.requests[r].status # PENDING_QA_EVALUATION THEN Raised(db, "ValidationError")
  ELSE IF ~ cft_complete THEN Raised(db, "ValidationError")
  ELSE IF ~ document_updates_complete THEN Raised(db, "ValidationError")
  ELSE IF db.requests[r].impact_level \in { MAJOR, CRITICAL }
          /\ ( \/ ~ risk_assessment_closed
               \/ ~ has_risk_assessment(db, r)
               \/ risk_assessment_of(db, r).status # SUB_COMPLETED )
  THEN Raised(db, "ValidationError")
  ELSE LET previous_status == db.requests[r].status
           moved == [ db EXCEPT !.requests[r].status = PENDING_QA_HEAD_APPROVAL,
                                !.requests[r].current_step = 9 ]
       IN Returned(log_workflow_history(moved, r, 8, previous_status,
                                        moved.requests[r].status))

\* qa_head_approval treating a refusal as a rejection of the request
qa_head_approval_rejects(db, r, actor, approved) ==
  IF db.requests[r].status # PENDING_QA_HEAD_APPROVAL THEN Raised(db, "ValidationError")
  ELSE LET previous_status == db.requests[r].status
           moved == IF approved
                    THEN [ db EXCEPT !.requests[r].status = PENDING_VERIFICATION,
                                     !.requests[r].current_step = 10 ]
                    ELSE [ db EXCEPT !.requests[r].status = REJECTED,
                                     !.requests[r].rejection_reason = "Returned for correction",
                                     !.requests[r].rejected_by = actor,
                                     !.requests[r].rejected_at = "now" ]
       IN Returned(log_workflow_history(moved, r, 9, previous_status,
                                        moved.requests[r].status))

qa_head_approval(db, r, actor, approved) ==
  IF db.requests[r].status # PENDING_QA_HEAD_APPROVAL THEN Raised(db, "ValidationError")
  ELSE LET previous_status == db.requests[r].status
           moved == IF approved
                    THEN [ db EXCEPT !.requests[r].status = PENDING_VERIFICATION,
                                     !.requests[r].current_step = 10 ]
                    ELSE [ db EXCEPT !.requests[r].status = PENDING_ACTION_PLAN,
                                     !.requests[r].current_step = 7 ]
       IN Returned(log_workflow_history(moved, r, 9, previous_status,
                                        moved.requests[r].status))

\* qa_closure without its audit entry
qa_closure_silent(db, r, actor) ==
  IF db.requests[r].status # CLOSED THEN Raised(db, "ValidationError")
  ELSE Returned(db)

qa_closure(db, r, actor) ==
  IF db.requests[r].status # CLOSED THEN Raised(db, "ValidationError")
  ELSE Returned(log_workflow_history(db, r, 11, None, None))

\* post_implementation_verification passing when one of the three checks passed
post_implementation_verification_any(db, r, actor, change_implemented, training_conducted, no_adverse_impact) ==
  IF db.requests[r].status # PENDING_VERIFICATION THEN Raised(db, "ValidationError")
  ELSE IF ~ (change_implemented \/ training_conducted \/ no_adverse_impact)
  THEN Raised(db, "ValidationError")
  ELSE LET previous_status == db.requests[r].status
           moved == [ db EXCEPT !.requests[r].status = CLOSED,
                                !.requests[r].current_step = 11,
                                !.requests[r].closed_at = "now" ]
           logged == log_workflow_history(moved, r, 10, previous_status,
                                          moved.requests[r].status)
       IN qa_closure(logged, r, actor)

post_implementation_verification(db, r, actor, change_implemented, training_conducted, no_adverse_impact) ==
  IF db.requests[r].status # PENDING_VERIFICATION THEN Raised(db, "ValidationError")
  ELSE IF ~ (change_implemented /\ training_conducted /\ no_adverse_impact)
  THEN Raised(db, "ValidationError")
  ELSE LET previous_status == db.requests[r].status
           moved == [ db EXCEPT !.requests[r].status = CLOSED,
                                !.requests[r].current_step = 11,
                                !.requests[r].closed_at = "now" ]
           logged == log_workflow_history(moved, r, 10, previous_status,
                                          moved.requests[r].status)
       IN qa_closure(logged, r, actor)

\* --------------------------------------------------------------- actions
Commit(op, r, out) ==
  /\ Len(out.db.workflow_history) <= MaxHistory
  /\ requests' = out.db.requests
  /\ cft_evaluators' = out.db.cft_evaluators
  /\ cft_evaluations' = out.db.cft_evaluations
  /\ risk_assessments' = out.db.risk_assessments
  /\ document_revisions' = out.db.document_revisions
  /\ action_plans' = out.db.action_plans
  /\ workflow_history' = out.db.workflow_history
  /\ last' = [ op |-> op, request |-> r, result |-> out.result ]
  /\ UNCHANGED << store, calls >>

\* the rows of the other requests: one registered QA request numbered 00001
\* and one QA request whose temporary number has a suffix that is not a number
OtherStores ==
  { { [ temporary_cc_number |-> [ yy |-> current_year, dept |-> "QA", seq |-> << 0, 0, 0, 0, 1 >> ],
        final_cc_number |-> [ yy |-> current_year, dept |-> "QA", seq |-> << 0, 0, 0, 0, 1 >> ] ],
      [ temporary_cc_number |-> [ yy |-> current_year, dept |-> "QA", seq |-> << 0, 0, 0, 9, NonDigit >> ],
        final_cc_number |-> NoNumber ] } }

Init ==
  /\ requests = << >>
  /\ cft_evaluators = {}
  /\ cft_evaluations = {}
  /\ risk_assessments = {}
  /\ document_revisions = {}
  /\ action_plans = << >>
  /\ workflow_history = << >>
  /\ store \in OtherStores
  /\ last = [ op |-> "none", request |-> 0, result |-> "ok" ]
  /\ calls = << >>

Initiate ==
  \E r \in RequestIds \ DOMAIN requests, user \in { "u2" }, department \in Departments \cup { None } :
    Commit("initiate_request", r, initiate_request(DB, r, user, department))

DeptHeadDecisionInputs(r) ==
  IF requests[r].status = PENDING_DEPT_HEAD
  THEN BOOLEAN \X { "", "not needed" }
  ELSE { << TRUE, "" >> }

DeptHeadDecision ==
  \E r \in DOMAIN requests, actor \in Users :
    \E input \in DeptHeadDecisionInputs(r) :
      Commit("dept_head_decision", r,
             dept_head_decision(DB, r, actor, input[1], input[2]))

\* the entries a cft_evaluators list is drawn from: QA or PD assigned, PD
\* assigned to a second user, and an entry without a department
EvaluatorEntries ==
  { [ department |-> "QA", evaluator |-> "u1" ],
    [ department |-> "PD", evaluator |-> "u2" ],
    [ department |-> "PD", evaluator |-> "u1" ],
    [ department |-> None, evaluator |-> "u2" ] }

EvaluatorLists ==
  UNION { [ 1..n -> EvaluatorEntries ] : n \in 0..MaxEvaluatorEntries }

FinalNumberInputs ==
  { NoNumber, [ yy |-> current_year, dept |-> "QA", seq |-> << 0, 0, 0, 0, 1 >> ] }

ImpactTypes == { "Operational" }
RiskLevels == { "Low" }

\* Every status-guarded function raises on the status before it reads its
\* payload, so outside the status it requires one payload stands for all.
QARegisterInputs(r) ==
  IF requests[r].status = PENDING_QA_REGISTRATION
  THEN FinalNumberInputs \X (ImpactLevelChoices \cup { "Severe" }) \X EvaluatorLists
  ELSE { << NoNumber, MINOR, << >> >> }

QARegister ==
  \E r \in DOMAIN requests, actor \in { "u1" } :
    \E input \in QARegisterInputs(r) :
      Commit("qa_registration", r,
             qa_registration(DB, r, actor, input[1], input[2], input[3]))

SubmitCFTEvaluationInputs(r) ==
  IF requests[r].status = PENDING_CFT_EVALUATION
  THEN ImpactTypes \X DecisionChoices \X RiskLevels
  ELSE { << "Operational", "Approved", "Low" >> }

SubmitCFTEvaluation ==
  \E r \in DOMAIN requests, actor \in Users, department \in Departments :
    \E input \in SubmitCFTEvaluationInputs(r) :
      Commit("cft_evaluation", r,
             cft_evaluation(DB, r, actor, department, input[1], input[2], input[3]))

CompleteRiskAssessment ==
  \E r \in DOMAIN requests, actor \in Users :
    Commit("complete_risk_assessment", r, complete_risk_assessment(DB, r, actor))

DocumentNames == { "SOP-1", "SOP-2" }

DocumentManagement ==
  \E r \in DOMAIN requests, actor \in { "u1" }, suggested_documents \in SUBSET DocumentNames :
    Commit("document_management", r,
           document_management(DB, r, actor, suggested_documents))

CompleteDocumentRevision ==
  \E r \in DOMAIN requests, actor \in { "u1" } :
    \E document_revision \in { d \in document_revisions : d.request = r } :
    Commit("complete_document_revision", r,
           complete_document_revision(DB, r, actor, document_revision))

ActionPlanLists ==
  UNION { [ 1..n -> Users ] : n \in 0..(MaxActionPlans - Len(action_plans)) }

CreateActionPlans ==
  \E r \in DOMAIN requests, actor \in { "u1" }, plans \in ActionPlanLists :
    Commit("action_plan_management", r, action_plan_management(DB, r, actor, plans))

CompleteActionPlanItem ==
  \E r \in DOMAIN requests, actor \in Users :
    \E pk \in { i \in 1..Len(action_plans) : action_plans[i].request = r } :
    Commit("complete_action_plan", r, complete_action_plan(DB, r, actor, pk))

QAFinalEvaluationInputs(r) ==
  IF requests[r].status = PENDING_QA_EVALUATION
  THEN BOOLEAN \X BOOLEAN \X BOOLEAN \X BOOLEAN
  ELSE { << TRUE, TRUE, TRUE, TRUE >> }

QAFinalEvaluation ==
  \E r \in DOMAIN requests, actor \in { "u1" } :
    \E input \in QAFinalEvaluationInputs(r) :
      Commit("qa_final_evaluation", r,
             qa_final_evaluation(DB, r, actor, input[1], input[2], input[3], input[4]))

QAHeadApproval ==
  \E r \in DOMAIN requests, actor \in { "u1" }, approved \in BOOLEAN :
    Commit("qa_head_approval", r, qa_head_approval(DB, r, actor, approved))

VerifyInputs(r) ==
  IF requests[r].status = PENDING_VERIFICATION
  THEN BOOLEAN \X BOOLEAN \X BOOLEAN
  ELSE { << TRUE, TRUE, TRUE >> }

Verify ==
  \E r \in DOMAIN requests, actor \in { "u1" } :
    \E input \in VerifyInputs(r) :
      Commit("post_implementation_verification", r,
             post_implementation_verification(DB, r, actor, input[1], input[2], input[3]))

Next ==
  \/ Initiate
  \/ DeptHeadDecision
  \/ QARegister
  \/ SubmitCFTEvaluation
  \/ CompleteRiskAssessment
  \/ DocumentManagement
  \/ CompleteDocumentRevision
  \/ CreateActionPlans
  \/ CompleteActionPlanItem
  \/ QAFinalEvaluation
  \/ QAHeadApproval
  \/ Verify

Spec == Init /\ [][Next]_vars

\* ------------------------------------------- Initiate calls in parallel
\* initiate_request runs outside any transaction and takes no lock: between
\* its query for the existing numbers, its INSERT of the request, its audit
\* entry and the routing, the statements of another call can run.
InitiateCalls == 1..MaxCalls

InitInitiate ==
  /\ requests = << >>
  /\ cft_evaluators = {}
  /\ cft_evaluations = {}
  /\ risk_assessments = {}
  /\ document_revisions = {}
  /\ action_plans = << >>
  /\ workflow_history = << >>
  /\ store \in OtherStores
  /\ last = [ op |-> "none", request |-> 0, result |-> "ok" ]
  /\ calls \in [ InitiateCalls ->
                   { [ op |-> "initiate_request", pc |-> "generate", user |-> u,
                       department |-> d, temp_cc_number |-> NoNumber, request |-> 0 ] :
                     u \in Users, d \in Departments } ]

\* temp_cc_number = generate_temp_cc_number(department.code)
GenerateTempNumber(c) ==
  /\ calls[c].pc = "generate"
  /\ calls' = [ calls EXCEPT
                  ![c].temp_cc_number = generate_temp_cc_number(DB, calls[c].department),
                  ![c].pc = "create" ]
  /\ UNCHANGED << tables, store, last >>

\* ChangeControlRequest.objects.create(...): temporary_cc_number is unique,
\* the INSERT of a number another row holds raises IntegrityError
CreateRequest(c) ==
  /\ calls[c].pc = "create"
  /\ IF calls[c].temp_cc_number \in temp_numbers(DB)
     THEN /\ calls' = [ calls EXCEPT ![c].pc = "IntegrityError" ]
          /\ UNCHANGED requests
     ELSE LET pk == Len(requests) + 1
          IN /\ requests' = Append(requests,
                   new_request(calls[c].temp_cc_number, calls[c].user, calls[c].department))
             /\ calls' = [ calls EXCEPT ![c].request = pk, ![c].pc = "log" ]
  /\ UNCHANGED << cft_evaluators, cft_evaluations, risk_assessments,
                  document_revisions, action_plans, workflow_history, store, last >>

LogInitiation(c) ==
  /\ calls[c].pc = "log"
  /\ workflow_history' =
       log_workflow_history(DB, calls[c].request, 1, None, None).workflow_history
  /\ calls' = [ calls EXCEPT ![c].pc = "route" ]
  /\ UNCHANGED << requests, cft_evaluators, cft_evaluations, risk_assessments,
                  document_revisions, action_plans, store, last >>

RouteToDeptHead(c) ==
  /\ calls[c].pc = "route"
  /\ LET out == route_to_dept_head(DB, calls[c].request)
     IN /\ requests' = out.db.requests
        /\ workflow_history' = out.db.workflow_history
        /\ calls' = [ calls EXCEPT ![c].pc = IF out.result = "ok" THEN "done"
                                             ELSE out.result ]
  /\ UNCHANGED << cft_evaluators, cft_evaluations, risk_assessments,
                  document_revisions, action_plans, store, last >>

NextInitiate ==
  \E c \in InitiateCalls :
    \/ GenerateTempNumber(c)
    \/ CreateRequest(c)
    \/ LogInitiation(c)
    \/ RouteToDeptHead(c)

SpecInitiate == InitInitiate /\ [][NextInitiate]_vars

\* ----------------------------------- SubmitCFTEvaluation calls in parallel
\* The view loads the request row (get_object) and hands the object to
\* cft_evaluation, which checks and changes that object in memory; its
\* get_or_create, its audit entry, its two counts and request.save() are
\* separate statements with no transaction and no row lock around them.
EmptyDB ==
  [ requests |-> << >>, cft_evaluators |-> {}, cft_evaluations |-> {},
    risk_assessments |-> {}, document_revisions |-> {}, action_plans |-> << >>,
    workflow_history |-> << >> ]

\* a request registered with the evaluators QA (u1) and PD (u2)
RegisteredDB(impact_level) ==
  LET initiated == initiate_request(EmptyDB, 1, "u2", "QA").db
      approved == dept_head_decision(initiated, 1, "u1", TRUE, "").db
  IN qa_registration(approved, 1, "u1", NoNumber, impact_level,
                     << [ department |-> "QA", evaluator |-> "u1" ],
                        [ department |-> "PD", evaluator |-> "u2" ] >>).db

\* one call per assigned evaluator
CFTCallIds == { 1, 2 }

CFTCalls ==
  [ CFTCallIds ->
      { [ op |-> "cft_evaluation", pc |-> "load", request |-> 1, actor |-> e.evaluator,
          department |-> e.department, decision |-> d, local |-> None ] :
        e \in { [ department |-> "QA", evaluator |-> "u1" ],
                [ department |-> "PD", evaluator |-> "u2" ] },
        d \in DecisionChoices } ]

InitCFT ==
  /\ store \in OtherStores
  /\ \E impact_level \in ImpactLevelChoices :
       LET db == RegisteredDB(impact_level)
       IN /\ requests = db.requests
          /\ cft_evaluators = db.cft_evaluators
          /\ cft_evaluations = db.cft_evaluations
          /\ risk_assessments = db.risk_assessments
          /\ document_revisions = db.document_revisions
          /\ action_plans = db.action_plans
          /\ workflow_history = db.workflow_history
  /\ last = [ op |-> "qa_registration", request |-> 1, result |-> "ok" ]
  /\ calls \in { f \in CFTCalls : f[1].department = "QA" /\ f[2].department = "PD" }

\* cc_request = self.get_object(), then the two checks at the head of
\* cft_evaluation on the loaded object
LoadRequest(c) ==
  /\ calls[c].pc = "load"
  /\ LET row == requests[calls[c].request]
     IN calls' = [ calls EXCEPT
          ![c].local = row,
          ![c].pc = IF row.status # PENDING_CFT_EVALUATION THEN "ValidationError"
                    ELSE IF ~ \E e \in cft_evaluators :
                                /\ e.request = calls[c].request
                                /\ e.department = calls[c].department
                                /\ e.evaluator = calls[c].actor
                    THEN "ValidationError"
                    ELSE "upsert" ]
  /\ UNCHANGED << tables, store, last >>

UpsertEvaluation(c) ==
  /\ calls[c].pc = "upsert"
  /\ cft_evaluations' =
       upsert_evaluation(DB, calls[c].request, calls[c].actor, calls[c].department,
                         "Operational", calls[c].decision, "Low").cft_evaluations
  /\ calls' = [ calls EXCEPT ![c].pc = "log" ]
  /\ UNCHANGED << requests, cft_evaluators, risk_assessments, document_revisions,
                  action_plans, workflow_history, store, last >>

\* previous_status and new_status default to the status of the loaded object
LogEvaluation(c) ==
  /\ calls[c].pc = "log"
  /\ workflow_history' =
       log_workflow_history(DB, calls[c].request, 4, calls[c].local.status,
                            calls[c].local.status).workflow_history
  /\ calls' = [ calls EXCEPT ![c].pc = "count" ]
  /\ UNCHANGED << requests, cft_evaluators, cft_evaluations, risk_assessments,
                  document_revisions, action_plans, store, last >>

\* the two counts and, when they are equal, the new field values set on the
\* loaded object
CountEvaluations(c) ==
  /\ calls[c].pc = "count"
  /\ LET r == calls[c].request
         loaded == [ DB EXCEPT !.requests[r] = calls[c].local ]
     IN calls' = [ calls EXCEPT
          ![c].local = cft_completion(loaded, r, calls[c].actor).requests[r],
          ![c].pc = IF all_evaluations_in(loaded, r) THEN "save" ELSE "returned" ]
  /\ UNCHANGED << tables, store, last >>

\* request.save() writes every field of the loaded object
SaveRequest(c) ==
  /\ calls[c].pc = "save"
  /\ requests' = [ requests EXCEPT ![calls[c].request] = calls[c].local ]
  /\ calls' = [ calls EXCEPT ![c].pc = "saved" ]
  /\ UNCHANGED << cft_evaluators, cft_evaluations, risk_assessments,
                  document_revisions, action_plans, workflow_history, store, last >>

NextCFT ==
  \E c \in CFTCallIds :
    \/ LoadRequest(c)
    \/ UpsertEvaluation(c)
    \/ LogEvaluation(c)
    \/ CountEvaluations(c)
    \/ SaveRequest(c)

SpecCFT == InitCFT /\ [][NextCFT]_vars

\* ------------------------------------------- requests in a closing status
\* The workflow functions act on whatever request row they are handed.  A
\* row reaches Pending_QA_Evaluation without them when its status and step
\* are edited in the admin (status, current_step and impact_level are
\* editable fields of ChangeControlRequestAdmin) and its risk assessment is
\* created or edited there; such an edit writes no audit entry.
LateRequest(impact_level) ==
  [ initiate_request(EmptyDB, 1, "u2", "QA").db.requests[1] EXCEPT
      !.status = PENDING_QA_EVALUATION,
      !.current_step = 8,
      !.impact_level = impact_level ]

\* no assessment, a Pending one or a Completed one; the assessor is a user
\* who makes no call of his own here
LateRiskAssessments ==
  { {},
    { [ request |-> 1, assigned_to |-> "u3", status |-> SUB_PENDING,
        completion_date |-> None ] },
    { [ request |-> 1, assigned_to |-> "u3", status |-> SUB_COMPLETED,
        completion_date |-> "now" ] } }

\* no action item, or one item that is Completed
LateActionPlans ==
  { << >>,
    << [ request |-> 1, responsible_person |-> "u2", status |-> SUB_COMPLETED,
         completion_date |-> "now" ] >> }

InitLate ==
  /\ store \in OtherStores
  /\ \E impact_level \in ImpactLevelChoices :
       requests = << LateRequest(impact_level) >>
  /\ cft_evaluators = {}
  /\ cft_evaluations = {}
  /\ risk_assessments \in LateRiskAssessments
  /\ document_revisions = {}
  /\ action_plans \in LateActionPlans
  /\ workflow_history = initiate_request(EmptyDB, 1, "u2", "QA").db.workflow_history
  /\ last = [ op |-> "none", request |-> 0, result |-> "ok" ]
  /\ calls = << >>

\* the workflow from an empty database or from a request in a closing status
InitAny == Init \/ InitLate

SpecLate == InitAny /\ [][Next]_vars

\* ------------------------------------------ identifiers over many stores
\* The generators read the identifiers of every stored request.  NumberPool
\* is a pool of other requests: numbered ones, one whose suffix is not a
\* number, another department, another year, and final numbers under GEN.
Digits(yy, dept, seq) == [ yy |-> yy, dept |-> dept, seq |-> seq ]

NumberPool ==
  { [ temporary_cc_number |-> Digits(current_year, "QA", << 0, 0, 0, 0, 1 >>),
      final_cc_number |-> Digits(current_year, "QA", << 0, 0, 0, 0, 1 >>) ],
    [ temporary_cc_number |-> Digits(current_year, "QA", << 0, 0, 0, 9, NonDigit >>),
      final_cc_number |-> NoNumber ],
    [ temporary_cc_number |-> Digits(current_year, "QA", << 0, 0, 0, 0, 3 >>),
      final_cc_number |-> Digits(current_year, "QA", << 0, 0, 0, 0, 7 >>) ],
    [ temporary_cc_number |-> Digits(current_year, "PD", << 0, 0, 0, 0, 5 >>),
      final_cc_number |-> Digits(current_year, "GEN", << 0, 0, 0, 0, 2 >>) ],
    [ temporary_cc_number |-> Digits(current_year - 1, "QA", << 0, 0, 0, 0, 9 >>),
      final_cc_number |-> Digits(current_year - 1, "QA", << 0, 0, 0, 0, 9 >>) ],
    [ temporary_cc_number |-> Digits(current_year, "QA", << 0, 0, 0, 0, 2 >>),
      final_cc_number |-> Digits(current_year, "GEN", << 0, 0, 0, NonDigit, 4 >>) ],
    [ temporary_cc_number |-> Digits(current_year, "PD", << 9, 9, 9, 9, 9 >>),
      final_cc_number |-> NoNumber ] }

InitNumbers ==
  /\ requests = << >>
  /\ cft_evaluators = {}
  /\ cft_evaluations = {}
  /\ risk_assessments = {}
  /\ document_revisions = {}
  /\ action_plans = << >>
  /\ workflow_history = << >>
  /\ store \in SUBSET NumberPool
  /\ last = [ op |-> "none", request |-> 0, result |-> "ok" ]
  /\ calls = << >>

\* a call of generate_temp_cc_number on its own; `calls` keeps what it returned
GenerateTemp ==
  \E department_code \in Departments :
    /\ calls' = << [ op |-> "generate_temp_cc_number",
                     department_code |-> department_code,
                     result |-> generate_temp_cc_number(DB, department_code) ] >>
    /\ UNCHANGED << tables, store, last >>

\* a call of generate_final_cc_number on its own, with or without a code
GenerateFinal ==
  \E department_code \in Departments \cup { None } :
    /\ calls' = << [ op |-> "generate_final_cc_number",
                     department_code |-> department_code,
                     result |-> generate_final_cc_number(DB, department_code) ] >>
    /\ UNCHANGED << tables, store, last >>

NextNumbers ==
  \/ GenerateTemp
  \/ GenerateFinal
  \/ Initiate

SpecNumbers == InitNumbers /\ [][NextNumbers]_vars

\* ------------------------------------------------- two requests side by side
\* Every workflow function is handed one request and filters the sub-record
\* tables by it.  Here two requests are stored: request 1 is registered (Minor,
\* QA evaluated by u1) and request 2 waits for its QA registration; the calls
\* on the two interleave as whole calls.
\* request 1 after initiate_request, dept_head_decision and qa_registration
PairRegistered ==
  LET initiated == initiate_request(EmptyDB, 1, "u2", "QA").db
      approved == dept_head_decision(initiated, 1, "u1", TRUE, "").db
  IN qa_registration(approved, 1, "u1", NoNumber, MINOR,
                     << [ department |-> "QA", evaluator |-> "u1" ] >>).db

\* then request 2 after initiate_request and dept_head_decision
InitPair ==
  /\ store \in OtherStores
  /\ \E registered \in { PairRegistered } :
       \E initiated \in { initiate_request(registered, 2, "u2", "QA").db } :
         \E db \in { dept_head_decision(initiated, 2, "u1", TRUE, "").db } :
           /\ requests = db.requests
           /\ cft_evaluators = db.cft_evaluators
           /\ cft_evaluations = db.cft_evaluations
           /\ risk_assessments = db.risk_assessments
           /\ document_revisions = db.document_revisions
           /\ action_plans = db.action_plans
           /\ workflow_history = db.workflow_history
  /\ last = [ op |-> "dept_head_decision", request |-> 2, result |-> "ok" ]
  /\ calls = << >>

PairCommit(op, r, out) ==
  /\ Len(out.db.workflow_history) <= MaxPairHistory
  /\ requests' = out.db.requests
  /\ cft_evaluators' = out.db.cft_evaluators
  /\ cft_evaluations' = out.db.cft_evaluations
  /\ risk_assessments' = out.db.risk_assessments
  /\ document_revisions' = out.db.document_revisions
  /\ action_plans' = out.db.action_plans
  /\ workflow_history' = out.db.workflow_history
  /\ last' = [ op |-> op, request |-> r, result |-> out.result ]
  /\ UNCHANGED << store, calls >>

PairImpactLevels == { MINOR, MAJOR }
PairEvaluatorList == << [ department |-> "QA", evaluator |-> "u1" ] >>
PairDecisions == { "Approved", "Rejected", "Pending" }
PairDocuments == { { "SOP-1" }, { "SOP-1", "SOP-2" } }

PairQARegister ==
  \E r \in DOMAIN requests, impact_level \in PairImpactLevels :
    PairCommit("qa_registration", r,
               qa_registration(DB, r, "u1", NoNumber, impact_level, PairEvaluatorList))

PairSubmitCFTEvaluation ==
  \E r \in DOMAIN requests, decision \in PairDecisions :
    PairCommit("cft_evaluation", r,
               cft_evaluation(DB, r, "u1", "QA", "Operational", decision, "Low"))

PairCompleteRiskAssessment ==
  \E r \in DOMAIN requests :
    PairCommit("complete_risk_assessment", r, complete_risk_assessment(DB, r, "u1"))

PairDocumentManagement ==
  \E r \in DOMAIN requests, suggested_documents \in PairDocuments :
    PairCommit("document_management", r,
               document_management(DB, r, "u1", suggested_documents))

\* get_object_or_404(DocumentRevision, id=revision_id, request=cc_request)
PairCompleteDocumentRevision ==
  \E r \in DOMAIN requests :
    \E document_revision \in { d \in document_revisions : d.request = r } :
      PairCommit("complete_document_revision", r,
                 complete_document_revision(DB, r, "u1", document_revision))

PairCreateActionPlans ==
  \E r \in DOMAIN requests, plans \in ActionPlanLists :
    PairCommit("action_plan_management", r, action_plan_management(DB, r, "u1", plans))

\* get_object_or_404(ActionPlan, id=action_plan_id, request=cc_request)
PairCompleteActionPlanItem ==
  \E r \in DOMAIN requests, actor \in Users :
    \E pk \in { i \in 1..Len(action_plans) : action_plans[i].request = r } :
      PairCommit("complete_action_plan", r, complete_action_plan(DB, r, actor, pk))

NextPair ==
  \/ PairQARegister
  \/ PairSubmitCFTEvaluation
  \/ PairCompleteRiskAssessment
  \/ PairDocumentManagement
  \/ PairCompleteDocumentRevision
  \/ PairCreateActionPlans
  \/ PairCompleteActionPlanItem

SpecPair == InitPair /\ [][NextPair]_vars

\* ------------------------------------------- a request through every gate
\* A Minor request taken by the workflow functions from initiate_request to
\* Pending_Action_Plan.  complete_action_plan never returns, so the only way
\* on to Pending_QA_Evaluation is an edit of status and step in the admin;
\* from there every workflow function can be called again.
InitGates ==
  /\ store \in OtherStores
  /\ \E registered \in { PairRegistered } :
       \E evaluated \in { cft_evaluation(registered, 1, "u1", "QA", "Operational",
                                         "Approved", "Low").db } :
         \E suggested \in { document_management(evaluated, 1, "u1", { "SOP-1" }).db } :
           \E revised \in { complete_document_revision(suggested, 1, "u1",
                              CHOOSE d \in suggested.document_revisions : TRUE).db } :
             /\ revised.requests[1].status = PENDING_ACTION_PLAN
             /\ requests = [ revised.requests EXCEPT
                               ![1].status = PENDING_QA_EVALUATION,
                               ![1].current_step = 8 ]
             /\ cft_evaluators = revised.cft_evaluators
             /\ cft_evaluations = revised.cft_evaluations
             /\ risk_assessments = revised.risk_assessments
             /\ document_revisions = revised.document_revisions
             /\ action_plans = revised.action_plans
             /\ workflow_history = revised.workflow_history
  /\ last = [ op |-> "none", request |-> 0, result |-> "ok" ]
  /\ calls = << >>

GateCommit(op, r, out) ==
  /\ Len(out.db.workflow_history) <= MaxGateHistory
  /\ requests' = out.db.requests
  /\ cft_evaluators' = out.db.cft_evaluators
  /\ cft_evaluations' = out.db.cft_evaluations
  /\ risk_assessments' = out.db.risk_assessments
  /\ document_revisions' = out.db.document_revisions
  /\ action_plans' = out.db.action_plans
  /\ workflow_history' = out.db.workflow_history
  /\ last' = [ op |-> op, request |-> r, result |-> out.result ]
  /\ UNCHANGED << store, calls >>

GateDeptHeadDecision ==
  \E r \in DOMAIN requests, actor \in Users :
    \E input \in DeptHeadDecisionInputs(r) :
      GateCommit("dept_head_decision", r,
                 dept_head_decision(DB, r, actor, input[1], input[2]))

GateQARegister ==
  \E r \in DOMAIN requests :
    \E input \in QARegisterInputs(r) :
      GateCommit("qa_registration", r,
                 qa_registration(DB, r, "u1", input[1], input[2], input[3]))

GateSubmitCFTEvaluation ==
  \E r \in DOMAIN requests, actor \in Users, department \in Departments :
    \E input \in SubmitCFTEvaluationInputs(r) :
      GateCommit("cft_evaluation", r,
                 cft_evaluation(DB, r, actor, department, input[1], input[2], input[3]))

GateCompleteRiskAssessment ==
  \E r \in DOMAIN requests, actor \in Users :
    GateCommit("complete_risk_assessment", r, complete_risk_assessment(DB, r, actor))

GateDocumentManagement ==
  \E r \in DOMAIN requests, suggested_documents \in SUBSET DocumentNames :
    GateCommit("document_management", r,
               document_management(DB, r, "u1", suggested_documents))

GateCompleteDocumentRevision ==
  \E r \in DOMAIN requests :
    \E document_revision \in { d \in document_revisions : d.request = r } :
      GateCommit("complete_document_revision", r,
                 complete_document_revision(DB, r, "u1", document_revision))

GateCreateActionPlans ==
  \E r \in DOMAIN requests, plans \in ActionPlanLists :
    GateCommit("action_plan_management", r, action_plan_management(DB, r, "u1", plans))

GateCompleteActionPlanItem ==
  \E r \in DOMAIN requests, actor \in Users :
    \E pk \in { i \in 1..Len(action_plans) : action_plans[i].request = r } :
      GateCommit("complete_action_plan", r, complete_action_plan(DB, r, actor, pk))

GateQAFinalEvaluation ==
  \E r \in DOMAIN requests :
    \E input \in QAFinalEvaluationInputs(r) :
      GateCommit("qa_final_evaluation", r,
                 qa_final_evaluation(DB, r, "u1", input[1], input[2], input[3], input[4]))

GateQAHeadApproval ==
  \E r \in DOMAIN requests, approved \in BOOLEAN :
    GateCommit("qa_head_approval", r, qa_head_approval(DB, r, "u1", approved))

GateVerify ==
  \E r \in DOMAIN requests :
    \E input \in VerifyInputs(r) :
      GateCommit("post_implementation_verification", r,
                 post_implementation_verification(DB, r, "u1", input[1], input[2], input[3]))

NextGates ==
  \/ GateDeptHeadDecision
  \/ GateQARegister
  \/ GateSubmitCFTEvaluation
  \/ GateCompleteRiskAssessment
  \/ GateDocumentManagement
  \/ GateCompleteDocumentRevision
  \/ GateCreateActionPlans
  \/ GateCompleteActionPlanItem
  \/ GateQAFinalEvaluation
  \/ GateQAHeadApproval
  \/ GateVerify

SpecGates == InitGates /\ [][NextGates]_vars

\* ------------------------------- CompleteDocumentRevision calls in parallel
\* The view loads the request row and the revision row and hands both objects
\* to complete_document_revision.  Its document_revision.save(), its query for
\* the revisions still Pending or In_Progress, its request.save() and its
\* audit entry are separate statements with no transaction or lock around
\* them; the status it tests is the one of the loaded object.
RevisionCallIds == { 1, 2 }

RevisionCalls ==
  [ RevisionCallIds ->
      { [ op |-> "complete_document_revision", pc |-> "load", request |-> 1,
          actor |-> u, document_name |-> n, local |-> None ] :
        u \in Users, n \in DocumentNames } ]

\* a registered Minor request whose evaluator has approved, with the two
\* suggested documents waiting for their revision
InitRevisions ==
  /\ store \in OtherStores
  /\ \E registered \in { PairRegistered } :
       \E evaluated \in { cft_evaluation(registered, 1, "u1", "QA", "Operational",
                                         "Approved", "Low").db } :
         \E db \in { document_management(evaluated, 1, "u1", DocumentNames).db } :
           /\ requests = db.requests
           /\ cft_evaluators = db.cft_evaluators
           /\ cft_evaluations = db.cft_evaluations
           /\ risk_assessments = db.risk_assessments
           /\ document_revisions = db.document_revisions
           /\ action_plans = db.action_plans
           /\ workflow_history = db.workflow_history
  /\ last = [ op |-> "document_management", request |-> 1, result |-> "ok" ]
  /\ calls \in RevisionCalls

\* cc_request = self.get_object(); get_object_or_404(DocumentRevision, ...)
LoadRevision(c) ==
  /\ calls[c].pc = "load"
  /\ calls' = [ calls EXCEPT ![c].local = requests[calls[c].request],
                             ![c].pc = "save_revision" ]
  /\ UNCHANGED << tables, store, last >>

\* document_revision.save() with status Completed
SaveRevision(c) ==
  /\ calls[c].pc = "save_revision"
  /\ document_revisions' =
       { IF d.request = calls[c].request /\ d.document_name = calls[c].document_name
         THEN [ d EXCEPT !.status = SUB_COMPLETED, !.revision_date = "now" ]
         ELSE d : d \in document_revisions }
  /\ calls' = [ calls EXCEPT ![c].pc = "check" ]
  /\ UNCHANGED << requests, cft_evaluators, cft_evaluations, risk_assessments,
                  action_plans, workflow_history, store, last >>

\* pending_revisions.exists() and the status of the loaded object; the new
\* status and step are set on the loaded object
CheckPendingRevisions(c) ==
  /\ calls[c].pc = "check"
  /\ IF pending_revisions(DB, calls[c].request) = {}
        /\ calls[c].local.status = PENDING_DOCUMENT_UPDATE
     THEN calls' = [ calls EXCEPT ![c].local.status = PENDING_ACTION_PLAN,
                                  ![c].local.current_step = 7,
                                  ![c].pc = "save_request" ]
     ELSE calls' = [ calls EXCEPT ![c].pc = "returned" ]
  /\ UNCHANGED << tables, store, last >>

\* request.save() writes every field of the loaded object
SaveMovedRequest(c) ==
  /\ calls[c].pc = "save_request"
  /\ requests' = [ requests EXCEPT ![calls[c].request] = calls[c].local ]
  /\ calls' = [ calls EXCEPT ![c].pc = "log" ]
  /\ UNCHANGED << cft_evaluators, cft_evaluations, risk_assessments,
                  document_revisions, action_plans, workflow_history, store, last >>

LogRevisionsCompleted(c) ==
  /\ calls[c].pc = "log"
  /\ workflow_history' =
       log_workflow_history(DB, calls[c].request, 6, PENDING_DOCUMENT_UPDATE,
                            calls[c].local.status).workflow_history
  /\ calls' = [ calls EXCEPT ![c].pc = "returned" ]
  /\ UNCHANGED << requests, cft_evaluators, cft_evaluations, risk_assessments,
                  document_revisions, action_plans, store, last >>

NextRevisions ==
  \E c \in RevisionCallIds :
    \/ LoadRevision(c)
    \/ SaveRevision(c)
    \/ CheckPendingRevisions(c)
    \/ SaveMovedRequest(c)
    \/ LogRevisionsCompleted(c)

SpecRevisions == InitRevisions /\ [][NextRevisions]_vars

\* ================================================================ claims
rejection_populated(row) ==
  row.rejection_reason # "" /\ row.rejected_by # None /\ row.rejected_at # None

\* C1: in every reachable state of every request the rejection fields
\* (rejection_reason, rejected_by, rejected_at) are all populated if and only
\* if the status is Rejected.
C1_RejectionFieldsIffRejected ==
  \A r \in DOMAIN requests :
    rejection_populated(requests[r]) <=> requests[r].status = REJECTED

\* C2: Closed and Rejected are terminal: once the status is Closed or
\* Rejected no workflow operation changes the status or the step again.
C2_TerminalStatuses ==
  [][ \A r \in DOMAIN requests :
        requests[r].status \in { CLOSED, REJECTED }
          => /\ requests'[r].status = requests[r].status
             /\ requests'[r].current_step = requests[r].current_step ]_vars

\* C3: a call that changes a request's status from s to t appends, in that
\* same call, an audit entry with previous_status s and new_status t.
C3_StatusChangeIsLogged ==
  [][ \A r \in DOMAIN requests :
        requests'[r].status # requests[r].status
          => \E i \in (Len(workflow_history) + 1)..Len(workflow_history') :
               /\ workflow_history'[i].request = r
               /\ workflow_history'[i].previous_status = requests[r].status
               /\ workflow_history'[i].new_status = requests'[r].status ]_vars

\* C4: no operation partially commits: a call that ends in an error leaves
\* the request, its sub-records and its audit log as they were before it.
C4_NoPartialCommit ==
  [][ last'.result # "ok" => UNCHANGED tables ]_vars

LaterStatuses ==
  { PENDING_RISK_ASSESSMENT, PENDING_DOCUMENT_UPDATE, PENDING_ACTION_PLAN,
    PENDING_QA_EVALUATION, PENDING_QA_HEAD_APPROVAL, PENDING_VERIFICATION, CLOSED }

\* C5: a request leaves Pending_CFT_Evaluation for Pending_Risk_Assessment,
\* Pending_Document_Update or a later status only in a state where it has as
\* many CFTEvaluation rows as CFTEvaluator assignments.
C5_LeavesCFTOnlyWhenAllIn ==
  [][ \A r \in DOMAIN requests :
        ( requests[r].status = PENDING_CFT_EVALUATION
          /\ requests'[r].status \in LaterStatuses )
          => Cardinality({ e \in cft_evaluations' : e.request = r })
               = Cardinality({ e \in cft_evaluators' : e.request = r }) ]_vars

\* C6: when a SubmitCFTEvaluation call brings the number of evaluations up to
\* the number of assigned evaluators and one stored decision is Rejected, the
\* request becomes Rejected with its rejection fields set, whatever the impact
\* level and the other decisions.
C6_OneRejectionRejects ==
  [][ \A r \in DOMAIN requests :
        ( /\ last'.op = "cft_evaluation" /\ last'.request = r /\ last'.result = "ok"
          /\ Cardinality({ e \in cft_evaluations' : e.request = r })
               = Cardinality({ e \in cft_evaluators' : e.request = r })
          /\ \E e \in cft_evaluations' : e.request = r /\ e.decision = "Rejected" )
          => /\ requests'[r].status = REJECTED
             /\ rejection_populated(requests'[r]) ]_vars

C6_Witness ==
  \E r \in DOMAIN requests :
    /\ last.op = "cft_evaluation" /\ last.request = r /\ last.result = "ok"
    /\ requests[r].status = REJECTED
    /\ Cardinality({ e \in cft_evaluators : e.request = r }) = 2
    /\ \E e \in cft_evaluations : e.request = r /\ e.decision = "Rejected"
    /\ \E e \in cft_evaluations : e.request = r /\ e.decision = "Approved"

\* C7: for a Minor request, the submission that completes the evaluations
\* with no Rejected decision moves the request from Pending_CFT_Evaluation
\* straight to Pending_Document_Update (step 6), and a Minor request is never
\* in Pending_Risk_Assessment.
C7_MinorSkipsRiskAssessment ==
  [][ \A r \in DOMAIN requests' :
        requests'[r].impact_level = MINOR
          => /\ requests'[r].status # PENDING_RISK_ASSESSMENT
             /\ ( /\ r \in DOMAIN requests
                  /\ last'.op = "cft_evaluation" /\ last'.request = r
                  /\ last'.result = "ok"
                  /\ Cardinality({ e \in cft_evaluations' : e.request = r })
                       = Cardinality({ e \in cft_evaluators' : e.request = r })
                  /\ ~ \E e \in cft_evaluations' :
                         e.request = r /\ e.decision = "Rejected" )
                  => /\ requests[r].status = PENDING_CFT_EVALUATION
                     /\ requests'[r].status = PENDING_DOCUMENT_UPDATE
                     /\ requests'[r].current_step = 6 ]_vars

C7_Witness ==
  \E r \in DOMAIN requests :
    /\ last.op = "cft_evaluation" /\ last.request = r /\ last.result = "ok"
    /\ requests[r].impact_level = MINOR
    /\ requests[r].status = PENDING_DOCUMENT_UPDATE
    /\ \E e \in cft_evaluations : e.request = r

\* C8: for a Major or Critical request with N >= 1 evaluators, QARegister
\* creates a Pending RiskAssessment, the request stays in
\* Pending_CFT_Evaluation until all N evaluators have submitted, and the last
\* submission with no Rejected decision moves it to Pending_Risk_Assessment
\* (step 5) as long as the risk assessment is not Completed.
C8_MajorWaitsForAllThenRisk ==
  [][ \A r \in DOMAIN requests :
        LET evaluators == { e \in cft_evaluators' : e.request = r }
            evaluations == { e \in cft_evaluations' : e.request = r }
        IN ( requests'[r].impact_level \in { MAJOR, CRITICAL } /\ evaluators # {} )
           => /\ ( last'.op = "qa_registration" /\ last'.request = r
                   /\ last'.result = "ok" )
                   => \E a \in risk_assessments' :
                        a.request = r /\ a.status = SUB_PENDING
              /\ ( requests[r].status = PENDING_CFT_EVALUATION
                   /\ requests'[r].status # PENDING_CFT_EVALUATION )
                   => Cardinality(evaluations) = Cardinality(evaluators)
              /\ ( /\ last'.op = "cft_evaluation" /\ last'.request = r
                   /\ last'.result = "ok"
                   /\ Cardinality(evaluations) = Cardinality(evaluators)
                   /\ ~ \E e \in evaluations : e.decision = "Rejected"
                   /\ ~ \E a \in risk_assessments' :
                          a.request = r /\ a.status = SUB_COMPLETED )
                   => /\ requests'[r].status = PENDING_RISK_ASSESSMENT
                      /\ requests'[r].current_step = 5 ]_vars

\* C9: risk assessment is mandatory for Major/Critical: whenever such a
\* request is in Pending_Document_Update or any later status up to Closed, its
\* RiskAssessment exists and is Completed.
C9_RiskAssessmentMandatory ==
  \A r \in DOMAIN requests :
    ( requests[r].impact_level \in { MAJOR, CRITICAL }
      /\ requests[r].status \in LaterStatuses \ { PENDING_RISK_ASSESSMENT } )
      => \E a \in risk_assessments : a.request = r /\ a.status = SUB_COMPLETED

C9_Witness ==
  \E r \in DOMAIN requests :
    /\ requests[r].impact_level \in { MAJOR, CRITICAL }
    /\ requests[r].status = PENDING_ACTION_PLAN
    /\ \E a \in risk_assessments : a.request = r /\ a.status = SUB_COMPLETED

\* the From state each status-guarded operation requires
RequiredStatus ==
  [ dept_head_decision |-> PENDING_DEPT_HEAD,
    qa_registration |-> PENDING_QA_REGISTRATION,
    cft_evaluation |-> PENDING_CFT_EVALUATION,
    action_plan_management |-> PENDING_ACTION_PLAN,
    qa_final_evaluation |-> PENDING_QA_EVALUATION,
    qa_head_approval |-> PENDING_QA_HEAD_APPROVAL,
    post_implementation_verification |-> PENDING_VERIFICATION ]

\* C10: DeptHeadDecision, QARegister, SubmitCFTEvaluation, CreateActionPlans,
\* QAFinalEvaluation, QAHeadApproval and Verify, invoked on a request whose
\* status is not the operation's From state, fail with an error and leave the
\* request, its sub-records and the audit log unchanged.
C10_WrongStatusFails ==
  [][ \A op \in DOMAIN RequiredStatus :
        ( /\ last'.op = op
          /\ last'.request \in DOMAIN requests
          /\ requests[last'.request].status # RequiredStatus[op] )
          => /\ last'.result = "ValidationError"
             /\ UNCHANGED tables ]_vars

C10_Witness ==
  /\ last.op = "action_plan_management"
  /\ last.result = "ValidationError"
  /\ last.request \in DOMAIN requests
  /\ requests[last.request].status = PENDING_DOCUMENT_UPDATE

\* C11: CompleteRiskAssessment takes effect only on a request in
\* Pending_Risk_Assessment: called in any other status it fails and leaves
\* the request and its risk assessment unchanged.
C11_RiskCompletionOnlyWhenPending ==
  [][ \A r \in DOMAIN requests :
        ( /\ last'.op = "complete_risk_assessment" /\ last'.request = r
          /\ requests[r].status # PENDING_RISK_ASSESSMENT )
          => /\ last'.result # "ok"
             /\ requests'[r] = requests[r]
             /\ risk_assessments' = risk_assessments ]_vars

\* C12: a successful QARegister, whatever its evaluator list (the empty one
\* included) and valid impact level, leaves the request in
\* Pending_CFT_Evaluation at step 4 with a final identifier, the impact level
\* and the registrar recorded, and a Pending RiskAssessment exists exactly
\* when the impact level is Major or Critical.
C12_RegistrationOutcome ==
  [][ \A r \in DOMAIN requests :
        ( last'.op = "qa_registration" /\ last'.request = r /\ last'.result = "ok" )
          => /\ requests'[r].status = PENDING_CFT_EVALUATION
             /\ requests'[r].current_step = 4
             /\ requests'[r].final_cc_number # NoNumber
             /\ requests'[r].impact_level \in ImpactLevelChoices
             /\ requests'[r].qa_registered_by # None
             /\ ( \E a \in risk_assessments' : a.request = r /\ a.status = SUB_PENDING )
                  <=> requests'[r].impact_level \in { MAJOR, CRITICAL } ]_vars

\* C13: a QARegister call on a Pending_QA_Registration request whose impact
\* level is not Minor, Major or Critical, or whose final number is held by
\* another request, fails with a validation error and leaves the request in
\* Pending_QA_Registration with no final identifier, impact level or
\* registrar, no CFTEvaluator row, no RiskAssessment and no new audit entry.
C13_InvalidRegistrationFails ==
  [][ \A r \in DOMAIN requests, actor \in Users : \A input \in QARegisterInputs(r) :
        ( /\ requests[r].status = PENDING_QA_REGISTRATION
          /\ \/ input[2] \notin { MINOR, MAJOR, CRITICAL }
             \/ /\ input[1] # NoNumber
                /\ \/ \E s \in store : s.final_cc_number = input[1]
                   \/ \E p \in DOMAIN requests \ { r } :
                        requests[p].final_cc_number = input[1]
          /\ Commit("qa_registration", r,
                    qa_registration(DB, r, actor, input[1], input[2], input[3])) )
          => /\ last'.result = "ValidationError"
             /\ requests'[r].status = PENDING_QA_REGISTRATION
             /\ requests'[r].final_cc_number = NoNumber
             /\ requests'[r].impact_level = None
             /\ requests'[r].qa_registered_by = None
             /\ ~ \E e \in cft_evaluators' : e.request = r
             /\ ~ \E a \in risk_assessments' : a.request = r
             /\ workflow_history' = workflow_history ]_vars

C13_Witness ==
  /\ last.op = "qa_registration"
  /\ last.result = "ValidationError"
  /\ last.request \in DOMAIN requests
  /\ requests[last.request].status = PENDING_QA_REGISTRATION
  /\ requests[last.request].final_cc_number = NoNumber
  /\ \E s \in store : s.final_cc_number # NoNumber

\* C14: two Initiate calls for the same department and year, interleaved at
\* the granularity of their reads and writes, are never assigned the same
\* temporary tracking number: computing max+1 and creating the request behave
\* as one atomic step, so no call creates a request under, or still holds, a
\* number that another call has been given.
C14_DistinctTemporaryNumbers ==
  /\ \A p, q \in DOMAIN requests :
       p # q => requests[p].temporary_cc_number # requests[q].temporary_cc_number
  /\ \A c, d \in DOMAIN calls :
       ( /\ c # d
         /\ calls[c].op = "initiate_request" /\ calls[d].op = "initiate_request"
         /\ calls[c].department = calls[d].department
         /\ calls[c].temp_cc_number # NoNumber )
         => calls[c].temp_cc_number # calls[d].temp_cc_number

\* C15: when the last two evaluators of a request submit concurrently, with
\* the upsert, the count check and the status write of the two calls
\* interleaved, the transition out of Pending_CFT_Evaluation is applied
\* exactly once: neither submission is lost, the threshold is not missed, and
\* the status and rejection fields are not written a second time.
C15_TransitionAppliedOnce ==
  LET submissions == { c \in DOMAIN calls : calls[c].op = "cft_evaluation" }
      writers == { c \in submissions : calls[c].pc = "saved" }
  IN /\ Cardinality(writers) <= 1
     /\ ( submissions # {}
          /\ \A c \in submissions : calls[c].pc \in { "saved", "returned" } )
          => /\ Cardinality(writers) = 1
             /\ \A c \in submissions :
                  /\ requests[calls[c].request].status # PENDING_CFT_EVALUATION
                  /\ \E e \in cft_evaluations :
                       /\ e.request = calls[c].request
                       /\ e.department = calls[c].department
                       /\ e.decision = calls[c].decision

\* C16: a CFT submission is an upsert keyed by (request, department): there
\* is at most one CFTEvaluation row per (request, department) in every state,
\* and submitting for a department the payload its row already holds, while
\* the request is in Pending_CFT_Evaluation, leaves exactly one row for that
\* department with the same decision, impact type and risk level.
C16_SubmissionIsIdempotentUpsert ==
  [][ /\ \A e1, e2 \in cft_evaluations' :
           ( e1.request = e2.request /\ e1.department = e2.department ) => e1 = e2
      /\ \A r \in DOMAIN requests, actor \in Users, department \in Departments :
           \A input \in SubmitCFTEvaluationInputs(r) :
             ( /\ requests[r].status = PENDING_CFT_EVALUATION
               /\ \E e \in cft_evaluations :
                    /\ e.request = r /\ e.department = department
                    /\ e.impact_type = input[1] /\ e.decision = input[2]
                    /\ e.risk_level = input[3]
               /\ Commit("cft_evaluation", r,
                         cft_evaluation(DB, r, actor, department,
                                        input[1], input[2], input[3]))
               /\ last'.result = "ok" )
               => LET rows == { e \in cft_evaluations' :
                                  e.request = r /\ e.department = department }
                  IN /\ Cardinality(rows) = 1
                     /\ \A e \in rows : /\ e.impact_type = input[1]
                                        /\ e.decision = input[2]
                                        /\ e.risk_level = input[3]
                     /\ cft_evaluations' = cft_evaluations ]_vars

C16_Witness ==
  \E r \in DOMAIN requests :
    /\ last.op = "cft_evaluation" /\ last.request = r /\ last.result = "ok"
    /\ requests[r].status = PENDING_CFT_EVALUATION
    /\ Cardinality({ e \in cft_evaluations : e.request = r }) = 1
    /\ Cardinality({ i \in 1..Len(workflow_history) :
                       workflow_history[i].request = r
                       /\ workflow_history[i].step = 4 }) >= 2

\* C17: the audit log is append-only: every request has at least one audit
\* entry from the call that creates it on, the number of entries of a request
\* never decreases, and no operation modifies or removes an entry once
\* written.
C17_AuditLogAppendOnly ==
  [][ /\ \A r \in DOMAIN requests' :
           \E i \in 1..Len(workflow_history') : workflow_history'[i].request = r
      /\ \A r \in DOMAIN requests :
           Cardinality({ i \in 1..Len(workflow_history') :
                           workflow_history'[i].request = r })
             >= Cardinality({ i \in 1..Len(workflow_history) :
                                workflow_history[i].request = r })
      /\ Len(workflow_history') >= Len(workflow_history)
      /\ \A i \in 1..Len(workflow_history) :
           workflow_history'[i] = workflow_history[i] ]_vars

C17_Witness ==
  /\ last.op = "document_management" /\ last.result = "ok"
  /\ last.request \in DOMAIN requests
  /\ Len(workflow_history) >= 6
  /\ workflow_history[1].step = 1
  /\ workflow_history[Len(workflow_history)].step = 6

\* C18: a successful Initiate appends exactly two audit entries, the
\* initiation entry (step 1, Draft -> Draft) and then the routing entry
\* (step 2, Draft -> Pending_Dept_Head); a successful Verify appends exactly
\* two audit entries, the verification entry (step 10, Pending_Verification
\* -> Closed) and then the closure entry (step 11, Closed -> Closed).
C18_TwoEntriesPerCompositeCall ==
  [][ \A r \in DOMAIN requests' :
        LET n == Len(workflow_history)
        IN /\ ( last'.op = "initiate_request" /\ last'.request = r
                /\ last'.result = "ok" )
                => /\ Len(workflow_history') = n + 2
                   /\ workflow_history'[n + 1] =
                        [ request |-> r, step |-> 1,
                          previous_status |-> DRAFT, new_status |-> DRAFT ]
                   /\ workflow_history'[n + 2] =
                        [ request |-> r, step |-> 2,
                          previous_status |-> DRAFT, new_status |-> PENDING_DEPT_HEAD ]
           /\ ( last'.op = "post_implementation_verification" /\ last'.request = r
                /\ last'.result = "ok" )
                => /\ Len(workflow_history') = n + 2
                   /\ workflow_history'[n + 1] =
                        [ request |-> r, step |-> 10,
                          previous_status |-> PENDING_VERIFICATION, new_status |-> CLOSED ]
                   /\ workflow_history'[n + 2] =
                        [ request |-> r, step |-> 11,
                          previous_status |-> CLOSED, new_status |-> CLOSED ] ]_vars

C18_Witness ==
  /\ last.op = "post_implementation_verification" /\ last.result = "ok"
  /\ last.request \in DOMAIN requests
  /\ requests[last.request].status = CLOSED
  /\ Len(workflow_history) >= 4
  /\ workflow_history[Len(workflow_history)].step = 11
  /\ workflow_history[1].step = 1 /\ workflow_history[2].step = 2

\* C19: every successful call that does not change the status (a
\* SubmitCFTEvaluation below the threshold, CreateActionPlans, a
\* CompleteDocumentRevision while other revisions remain Pending or
\* In_Progress, a CompleteActionPlanItem while other items remain) appends
\* exactly one audit entry, with previous_status = new_status.
C19_UnchangedStatusLogsOnce ==
  [][ \A r \in DOMAIN requests :
        ( /\ last'.request = r /\ last'.result = "ok"
          /\ requests'[r].status = requests[r].status
          /\ \/ last'.op \in { "cft_evaluation", "action_plan_management" }
             \/ /\ last'.op = "complete_document_revision"
                /\ \E d \in document_revisions' :
                     d.request = r /\ d.status # SUB_COMPLETED
             \/ /\ last'.op = "complete_action_plan"
                /\ \E i \in 1..Len(action_plans') :
                     /\ action_plans'[i].request = r
                     /\ action_plans'[i].status # SUB_COMPLETED )
          => /\ Len(workflow_history') = Len(workflow_history) + 1
             /\ workflow_history'[Len(workflow_history')].request = r
             /\ workflow_history'[Len(workflow_history')].previous_status
                  = requests[r].status
             /\ workflow_history'[Len(workflow_history')].new_status
                  = requests[r].status ]_vars

\* C20: QAFinalEvaluation on a request in Pending_QA_Evaluation moves it to
\* Pending_QA_Head_Approval (step 9) only if cft_complete,
\* document_updates_complete and regulatory_filings_complete are all true and,
\* for a Major or Critical request, risk_assessment_closed is true and the
\* RiskAssessment is Completed; otherwise it fails with a validation error
\* and the status stays Pending_QA_Evaluation.
C20_FinalEvaluationChecks ==
  [][ \A r \in DOMAIN requests, actor \in Users :
        \A input \in QAFinalEvaluationInputs(r) :
          ( /\ requests[r].status = PENDING_QA_EVALUATION
            /\ Commit("qa_final_evaluation", r,
                      qa_final_evaluation(DB, r, actor, input[1], input[2],
                                          input[3], input[4])) )
            => IF /\ input[1] /\ input[2] /\ input[4]
                  /\ requests[r].impact_level \in { MAJOR, CRITICAL }
                       => /\ input[3]
                          /\ \E a \in risk_assessments :
                               a.request = r /\ a.status = SUB_COMPLETED
               THEN /\ last'.result = "ok"
                    /\ requests'[r].status = PENDING_QA_HEAD_APPROVAL
                    /\ requests'[r].current_step = 9
               ELSE /\ last'.result = "ValidationError"
                    /\ requests'[r].status = PENDING_QA_EVALUATION ]_vars

\* C21: QAHeadApproval on a request in Pending_QA_Head_Approval: with
\* approved = true the request moves to Pending_Verification with step 10;
\* with approved = false it moves back to Pending_Action_Plan with step 7, its
\* status is not Rejected, its rejection fields stay unpopulated and its
\* existing action items are left unchanged.
C21_HeadApprovalOutcome ==
  [][ \A r \in DOMAIN requests, actor \in Users, approved \in BOOLEAN :
        ( /\ requests[r].status = PENDING_QA_HEAD_APPROVAL
          /\ Commit("qa_head_approval", r, qa_head_approval(DB, r, actor, approved)) )
          => /\ last'.result = "ok"
             /\ IF approved
                THEN /\ requests'[r].status = PENDING_VERIFICATION
                     /\ requests'[r].current_step = 10
                ELSE /\ requests'[r].status = PENDING_ACTION_PLAN
                     /\ requests'[r].current_step = 7
                     /\ requests'[r].rejection_reason = ""
                     /\ requests'[r].rejected_by = None
                     /\ requests'[r].rejected_at = None
                     /\ action_plans' = action_plans ]_vars

C21_Witness ==
  /\ last.op = "qa_head_approval" /\ last.result = "ok"
  /\ last.request \in DOMAIN requests
  /\ requests[last.request].status = PENDING_ACTION_PLAN
  /\ requests[last.request].current_step = 7
  /\ \E i \in 1..Len(action_plans) :
       action_plans[i].request = last.request /\ action_plans[i].status = SUB_COMPLETED

\* C22: Verify on a request in Pending_Verification: if any of
\* change_implemented, training_conducted, no_adverse_impact is false the call
\* fails with a validation error and leaves status Pending_Verification,
\* closed_at unset and the audit log unchanged; if all three are true the
\* request becomes Closed with step 11 and closed_at set.
C22_VerifyOutcome ==
  [][ \A r \in DOMAIN requests, actor \in Users :
        \A input \in VerifyInputs(r) :
          ( /\ requests[r].status = PENDING_VERIFICATION
            /\ Commit("post_implementation_verification", r,
                      post_implementation_verification(DB, r, actor, input[1],
                                                       input[2], input[3])) )
            => IF input[1] /\ input[2] /\ input[3]
               THEN /\ last'.result = "ok"
                    /\ requests'[r].status = CLOSED
                    /\ requests'[r].current_step = 11
                    /\ requests'[r].closed_at # None
               ELSE /\ last'.result = "ValidationError"
                    /\ requests'[r].status = PENDING_VERIFICATION
                    /\ requests'[r].closed_at = None
                    /\ workflow_history' = workflow_history ]_vars

C22_Witness ==
  /\ last.op = "post_implementation_verification"
  /\ last.result = "ValidationError"
  /\ last.request \in DOMAIN requests
  /\ requests[last.request].status = PENDING_VERIFICATION
  /\ requests[last.request].closed_at = None

\* C23: DeptHeadDecision with approved = false by the department head on a
\* Pending_Dept_Head request sets status Rejected with a non-empty
\* rejection_reason (a default text when none is given), rejected_by = the
\* actor and rejected_at set; the request then stays Rejected and every later
\* QARegister call on it fails and leaves it as it is.  With approved = true
\* the request moves to Pending_QA_Registration with step 3 and no rejection
\* fields.
C23_DeptHeadDecisionOutcome ==
  [][ /\ \A r \in DOMAIN requests, actor \in Users :
           \A input \in DeptHeadDecisionInputs(r) :
             ( /\ requests[r].status = PENDING_DEPT_HEAD
               /\ head[requests[r].department] = actor
               /\ Commit("dept_head_decision", r,
                         dept_head_decision(DB, r, actor, input[1], input[2])) )
               => /\ last'.result = "ok"
                  /\ IF input[1]
                     THEN /\ requests'[r].status = PENDING_QA_REGISTRATION
                          /\ requests'[r].current_step = 3
                          /\ requests'[r].rejection_reason = ""
                          /\ requests'[r].rejected_by = None
                          /\ requests'[r].rejected_at = None
                     ELSE /\ requests'[r].status = REJECTED
                          /\ requests'[r].rejection_reason # ""
                          /\ input[2] # "" => requests'[r].rejection_reason = input[2]
                          /\ requests'[r].rejected_by = actor
                          /\ requests'[r].rejected_at # None
      /\ \A r \in DOMAIN requests :
           ( requests[r].status = REJECTED /\ requests[r].current_step = 2 )
             => /\ requests'[r].status = REJECTED
                /\ ( last'.op = "qa_registration" /\ last'.request = r )
                     => /\ last'.result # "ok"
                        /\ requests'[r] = requests[r] ]_vars

C23_Witness ==
  /\ last.op = "qa_registration" /\ last.result = "ValidationError"
  /\ last.request \in DOMAIN requests
  /\ requests[last.request].status = REJECTED
  /\ requests[last.request].current_step = 2
  /\ requests[last.request].rejection_reason = "Rejected by department head"
  /\ requests[last.request].rejected_by = "u1"

\* C24: a successful Initiate for a department that has a head returns a new
\* request in Pending_Dept_Head with step 2 and the caller as initiator, and
\* the first request initiated for a department and year receives the
\* temporary identifier with sequence 00001 under REQ/CC/<YY>/<DEPT>/.
C24_InitiateOutcome ==
  [][ \A r \in RequestIds, user \in Users, department \in Departments :
        ( /\ r \notin DOMAIN requests
          /\ head[department] # None
          /\ Commit("initiate_request", r, initiate_request(DB, r, user, department)) )
          => /\ last'.result = "ok"
             /\ requests'[r].status = PENDING_DEPT_HEAD
             /\ requests'[r].current_step = 2
             /\ requests'[r].initiator = user
             /\ requests'[r].department = department
             /\ requests'[r].temporary_cc_number.yy = current_year
             /\ requests'[r].temporary_cc_number.dept = department
             /\ ( ~ \E s \in store :
                      /\ s.temporary_cc_number.yy = current_year
                      /\ s.temporary_cc_number.dept = department )
                  => requests'[r].temporary_cc_number.seq = << 0, 0, 0, 0, 1 >> ]_vars

C24_Witness ==
  /\ last.op = "initiate_request" /\ last.result = "ok"
  /\ last.request \in DOMAIN requests
  /\ requests[last.request].status = PENDING_DEPT_HEAD
  /\ requests[last.request].temporary_cc_number.dept = "QA"
  /\ requests[last.request].temporary_cc_number.seq = << 0, 0, 0, 0, 1 >>
  /\ \E s \in store : /\ s.temporary_cc_number.dept = "QA"
                      /\ s.temporary_cc_number.yy = current_year - 1
  /\ \E s \in store : s.temporary_cc_number.dept = "PD"

\* C25: the role-sensitive guards are checked by the workflow functions
\* themselves: DeptHeadDecision by an actor other than the department head,
\* SubmitCFTEvaluation by an actor who is not the assigned evaluator of that
\* (request, department), CompleteRiskAssessment by an actor other than the
\* assignee and CompleteActionPlanItem by an actor other than the responsible
\* person each fail with an error and leave the request, its sub-records and
\* its audit log unchanged.
C25_RoleGuards ==
  [][ \A r \in DOMAIN requests, actor \in Users :
        /\ \A input \in DeptHeadDecisionInputs(r) :
             ( /\ head[requests[r].department] # actor
               /\ Commit("dept_head_decision", r,
                         dept_head_decision(DB, r, actor, input[1], input[2])) )
               => last'.result # "ok" /\ UNCHANGED tables
        /\ \A department \in Departments :
             \A input \in SubmitCFTEvaluationInputs(r) :
               ( /\ ~ \E e \in cft_evaluators :
                        /\ e.request = r /\ e.department = department
                        /\ e.evaluator = actor
                 /\ Commit("cft_evaluation", r,
                           cft_evaluation(DB, r, actor, department,
                                          input[1], input[2], input[3])) )
                 => last'.result # "ok" /\ UNCHANGED tables
        /\ ( /\ \E a \in risk_assessments : a.request = r /\ a.assigned_to # actor
             /\ Commit("complete_risk_assessment", r,
                       complete_risk_assessment(DB, r, actor)) )
             => last'.result # "ok" /\ UNCHANGED tables
        /\ \A pk \in 1..Len(action_plans) :
             ( /\ action_plans[pk].request = r
               /\ action_plans[pk].responsible_person # actor
               /\ Commit("complete_action_plan", r,
                         complete_action_plan(DB, r, actor, pk)) )
               => last'.result # "ok" /\ UNCHANGED tables ]_vars

C25_Witness ==
  /\ last.op = "complete_risk_assessment" /\ last.result = "ValidationError"
  /\ last.request \in DOMAIN requests
  /\ requests[last.request].status = PENDING_RISK_ASSESSMENT
  /\ \E a \in risk_assessments :
       /\ a.request = last.request /\ a.assigned_to = "u1" /\ a.status = SUB_PENDING

\* C26: a request leaves Pending_Document_Update for Pending_Action_Plan
\* (step 7) only in a step of complete_document_revision, and only into a state
\* where none of its document revisions is Pending or In_Progress; completing
\* one revision while another of the request is still Pending or In_Progress
\* leaves the request in Pending_Document_Update.
C26_DocumentPhaseAdvance ==
  [][ \A r \in DOMAIN requests :
        /\ ( /\ requests[r].status = PENDING_DOCUMENT_UPDATE
             /\ requests'[r].status = PENDING_ACTION_PLAN )
             => /\ last'.op = "complete_document_revision"
                /\ last'.request = r
                /\ requests'[r].current_step = 7
                /\ ~ \E d \in document_revisions' :
                       /\ d.request = r
                       /\ d.status \in { SUB_PENDING, SUB_IN_PROGRESS }
        /\ \A actor \in Users, document_revision \in document_revisions :
             ( /\ document_revision.request = r
               /\ requests[r].status = PENDING_DOCUMENT_UPDATE
               /\ pending_revisions(DB, r) \ { document_revision } # {}
               /\ Commit("complete_document_revision", r,
                         complete_document_revision(DB, r, actor, document_revision)) )
               => /\ requests'[r].status = PENDING_DOCUMENT_UPDATE
                  /\ workflow_history' = workflow_history ]_vars

C26_Witness ==
  /\ last.op = "complete_document_revision" /\ last.result = "ok"
  /\ last.request \in DOMAIN requests
  /\ requests[last.request].status = PENDING_DOCUMENT_UPDATE
  /\ \E d \in document_revisions :
       d.request = last.request /\ d.status = SUB_COMPLETED
  /\ \E d \in document_revisions :
       d.request = last.request /\ d.status = SUB_PENDING

\* C27: on a request in Pending_Action_Plan, complete_action_plan called by the
\* item's responsible person succeeds and sets the item to Completed with its
\* completion date; the request moves to Pending_QA_Evaluation (step 8) exactly
\* when no action item of the request is Pending or In_Progress after the
\* call, and keeps its status otherwise.
C27_CompleteActionPlanOutcome ==
  [][ \A r \in DOMAIN requests, actor \in Users, pk \in 1..Len(action_plans) :
        ( /\ action_plans[pk].request = r
          /\ requests[r].status = PENDING_ACTION_PLAN
          /\ action_plans[pk].responsible_person = actor
          /\ Commit("complete_action_plan", r,
                    complete_action_plan(DB, r, actor, pk)) )
          => /\ last'.result = "ok"
             /\ action_plans'[pk].status = SUB_COMPLETED
             /\ action_plans'[pk].completion_date # None
             /\ IF \E i \in 1..Len(action_plans') :
                     /\ action_plans'[i].request = r
                     /\ action_plans'[i].status \in { SUB_PENDING, SUB_IN_PROGRESS }
                THEN requests'[r].status = PENDING_ACTION_PLAN
                ELSE /\ requests'[r].status = PENDING_QA_EVALUATION
                     /\ requests'[r].current_step = 8 ]_vars

\* C28: the step is in lock-step with the status: in every reachable state
\* current_step is in 1..11 and is the step of the status (Draft 1,
\* Pending_Dept_Head 2, Pending_QA_Registration 3, Pending_CFT_Evaluation 4,
\* Pending_Risk_Assessment 5, Pending_Document_Update 6, Pending_Action_Plan 7,
\* Pending_QA_Evaluation 8, Pending_QA_Head_Approval 9, Pending_Verification
\* 10, Closed 11); a Rejected request has step 2 or 4.
C28_StepOfStatus ==
  \A r \in DOMAIN requests :
    LET status == requests[r].status
        step == requests[r].current_step
    IN /\ step \in 1..11
       /\ status = DRAFT => step = 1
       /\ status = PENDING_DEPT_HEAD => step = 2
       /\ status = PENDING_QA_REGISTRATION => step = 3
       /\ status = PENDING_CFT_EVALUATION => step = 4
       /\ status = PENDING_RISK_ASSESSMENT => step = 5
       /\ status = PENDING_DOCUMENT_UPDATE => step = 6
       /\ status = PENDING_ACTION_PLAN => step = 7
       /\ status = PENDING_QA_EVALUATION => step = 8
       /\ status = PENDING_QA_HEAD_APPROVAL => step = 9
       /\ status = PENDING_VERIFICATION => step = 10
       /\ status = CLOSED => step = 11
       /\ status = REJECTED => step \in { 2, 4 }

C28_Witness ==
  /\ last.op = "cft_evaluation" /\ last.result = "ok"
  /\ last.request \in DOMAIN requests
  /\ requests[last.request].status = REJECTED
  /\ requests[last.request].current_step = 4
  /\ requests[last.request].final_cc_number # NoNumber

\* C29: the identifier generators return the prefix REQ/CC/<YY>/<DEPT>/
\* followed by max + 1 zero-padded to five digits, where max is the largest
\* numeric suffix among the stored identifiers of the same kind (temporary or
\* final) with that prefix and 0 when there is none; stored identifiers whose
\* suffix is not a number are ignored; generate_final_cc_number without a
\* department code uses the code GEN.
C29_GeneratedNumber ==
  [][ ( calls' # calls /\ calls' # << >> )
        => LET call == calls'[1]
               existing ==
                 IF call.op = "generate_temp_cc_number"
                 THEN { s.temporary_cc_number : s \in store }
                        \cup { requests[r].temporary_cc_number : r \in DOMAIN requests }
                 ELSE ({ s.final_cc_number : s \in store }
                         \cup { requests[r].final_cc_number : r \in DOMAIN requests })
                        \ { NoNumber }
               code == IF call.department_code = None THEN "GEN"
                       ELSE call.department_code
               suffixes == { int(m.seq) : m \in { n \in existing :
                               /\ n.yy = current_year /\ n.dept = code
                               /\ \A i \in 1..Len(n.seq) : n.seq[i] # NonDigit } }
               seq == call.result.seq
           IN /\ call.result.yy = current_year
              /\ call.result.dept = code
              /\ Len(seq) >= 5
              /\ \A i \in 1..Len(seq) : seq[i] \in 0..9
              /\ Len(seq) > 5 => seq[1] # 0
              /\ \A n \in suffixes : int(seq) > n
              /\ int(seq) = 1 \/ (int(seq) - 1) \in suffixes
              /\ suffixes = {} => seq = << 0, 0, 0, 0, 1 >> ]_vars

C29_Witness ==
  /\ calls # << >>
  /\ calls[1].op = "generate_final_cc_number"
  /\ calls[1].department_code = None
  /\ calls[1].result = Digits(current_year, "GEN", << 0, 0, 0, 0, 3 >>)
  /\ \E s \in store : s.final_cc_number = Digits(current_year, "GEN", << 0, 0, 0, 0, 2 >>)
  /\ \E s \in store :
       s.final_cc_number = Digits(current_year, "GEN", << 0, 0, 0, NonDigit, 4 >>)

\* C30: under any sequence of whole operations no request shares its temporary
\* number with another stored request, no request shares a final number that
\* is set with another stored request, the temporary number of a request never
\* changes after creation, and the final number stays unset until a
\* successful qa_registration and never changes afterwards.
C30_IdentifierLifecycle ==
  [][ /\ \A r \in DOMAIN requests', s \in store' :
           /\ requests'[r].temporary_cc_number # s.temporary_cc_number
           /\ requests'[r].final_cc_number # NoNumber
                => requests'[r].final_cc_number # s.final_cc_number
      /\ \A r \in DOMAIN requests :
           /\ r \in DOMAIN requests'
           /\ requests'[r].temporary_cc_number = requests[r].temporary_cc_number
           /\ requests'[r].final_cc_number # requests[r].final_cc_number
                => /\ requests[r].final_cc_number = NoNumber
                   /\ last'.op = "qa_registration"
                   /\ last'.request = r
                   /\ last'.result = "ok"
      /\ \A r \in DOMAIN requests' \ DOMAIN requests :
           requests'[r].final_cc_number = NoNumber ]_vars

\* C31: in every reachable state a request has at most as many CFTEvaluation
\* rows as CFTEvaluator assignments, and every CFTEvaluation row is of a
\* department that has an assignment for that request.
C31_EvaluationsWithinAssignments ==
  \A r \in DOMAIN requests :
    /\ Cardinality({ e \in cft_evaluations : e.request = r })
         <= Cardinality({ a \in cft_evaluators : a.request = r })
    /\ \A e \in cft_evaluations :
         e.request = r
           => \E a \in cft_evaluators :
                a.request = r /\ a.department = e.department

C31_Witness ==
  /\ last.op = "cft_evaluation" /\ last.result = "ok"
  /\ Cardinality({ a \in cft_evaluators : a.request = last.request }) = 2
  /\ Cardinality({ e \in cft_evaluations : e.request = last.request }) = 2

\* C32: a request has at most one RiskAssessment, and it has one only if its
\* impact level is Major or Critical; the RiskAssessment is created, Pending,
\* by a successful qa_registration, and no later call creates another.
C32_OneRiskAssessment ==
  [][ \A r \in DOMAIN requests' :
        LET before == { a \in risk_assessments : a.request = r }
            after == { a \in risk_assessments' : a.request = r }
        IN /\ Cardinality(after) <= 1
           /\ after # {} => requests'[r].impact_level \in { MAJOR, CRITICAL }
           /\ before # {} => Cardinality(before) = Cardinality(after)
           /\ ( before = {} /\ after # {} )
                => /\ last'.op = "qa_registration"
                   /\ last'.request = r
                   /\ last'.result = "ok"
                   /\ \A a \in after : a.status = SUB_PENDING ]_vars

C32_Witness ==
  /\ last.op = "qa_registration" /\ last.result = "ok"
  /\ last.request \in DOMAIN requests
  /\ requests[last.request].impact_level = CRITICAL
  /\ \E a \in risk_assessments :
       /\ a.request = last.request /\ a.status = SUB_PENDING
       /\ a.assigned_to = requests[last.request].qa_registered_by

\* C33: for every CFTEvaluation, after any sequence of submissions and
\* re-submissions, completed_at is set if and only if the stored decision is
\* not Pending.
C33_CompletedIffDecided ==
  \A e \in cft_evaluations : e.completed_at # None <=> e.decision # "Pending"

\* C34: operations on different requests are independent: a workflow call on
\* request a never changes the row, the sub-records or the audit entries of
\* another request b, and the status and step it gives to a are the ones it
\* would give if only a's own sub-records were stored; the requests share
\* nothing but the tracking numbers the identifier generator reads.
C34_RequestsIndependent ==
  [][ \A a \in DOMAIN requests :
        LET OfRequest(h) == h.request = a
            alone == [ requests |-> [ p \in { a } |-> requests[p] ],
                       cft_evaluators |-> { e \in cft_evaluators : e.request = a },
                       cft_evaluations |-> { e \in cft_evaluations : e.request = a },
                       risk_assessments |-> { x \in risk_assessments : x.request = a },
                       document_revisions |-> { d \in document_revisions : d.request = a },
                       action_plans |-> [ i \in 1..Len(action_plans) |->
                                            IF action_plans[i].request = a
                                            THEN action_plans[i]
                                            ELSE [ action_plans[i] EXCEPT !.request = 0 ] ],
                       workflow_history |-> SelectSeq(workflow_history, OfRequest) ]
            SameOutcome(op, out, out_alone) ==
              PairCommit(op, a, out)
                => /\ requests'[a].status = out_alone.db.requests[a].status
                   /\ requests'[a].current_step = out_alone.db.requests[a].current_step
                   /\ last'.result = out_alone.result
        IN /\ last'.request = a
             => \A b \in DOMAIN requests \ { a } :
                  LET OfOther(h) == h.request = b
                  IN /\ b \in DOMAIN requests' /\ requests'[b] = requests[b]
                     /\ { e \in cft_evaluators' : e.request = b }
                          = { e \in cft_evaluators : e.request = b }
                     /\ { e \in cft_evaluations' : e.request = b }
                          = { e \in cft_evaluations : e.request = b }
                     /\ { x \in risk_assessments' : x.request = b }
                          = { x \in risk_assessments : x.request = b }
                     /\ { d \in document_revisions' : d.request = b }
                          = { d \in document_revisions : d.request = b }
                     /\ \A i \in 1..Len(action_plans) :
                          action_plans[i].request = b
                            => action_plans'[i] = action_plans[i]
                     /\ SelectSeq(workflow_history', OfOther)
                          = SelectSeq(workflow_history, OfOther)
           /\ \A impact_level \in PairImpactLevels :
                SameOutcome("qa_registration",
                  qa_registration(DB, a, "u1", NoNumber, impact_level, PairEvaluatorList),
                  qa_registration(alone, a, "u1", NoNumber, impact_level, PairEvaluatorList))
           /\ \A decision \in PairDecisions :
                SameOutcome("cft_evaluation",
                  cft_evaluation(DB, a, "u1", "QA", "Operational", decision, "Low"),
                  cft_evaluation(alone, a, "u1", "QA", "Operational", decision, "Low"))
           /\ SameOutcome("complete_risk_assessment",
                complete_risk_assessment(DB, a, "u1"),
                complete_risk_assessment(alone, a, "u1"))
           /\ \A suggested_documents \in PairDocuments :
                SameOutcome("document_management",
                  document_management(DB, a, "u1", suggested_documents),
                  document_management(alone, a, "u1", suggested_documents))
           /\ \A document_revision \in { d \in document_revisions : d.request = a } :
                SameOutcome("complete_document_revision",
                  complete_document_revision(DB, a, "u1", document_revision),
                  complete_document_revision(alone, a, "u1", document_revision))
           /\ \A plans \in ActionPlanLists :
                SameOutcome("action_plan_management",
                  action_plan_management(DB, a, "u1", plans),
                  action_plan_management(alone, a, "u1", plans)) ]_vars

C34_Witness ==
  /\ last.op = "cft_evaluation" /\ last.request = 1 /\ last.result = "ok"
  /\ requests[1].status = PENDING_DOCUMENT_UPDATE
  /\ requests[2].status = PENDING_CFT_EVALUATION
  /\ \E e \in cft_evaluators : e.request = 2
  /\ ~ \E e \in cft_evaluations : e.request = 2

C36_DraftIsTransient ==
  [][ last'.op = "initiate_request"
        => /\ \A r \in DOMAIN requests' : requests'[r].status # DRAFT
           /\ last'.result # "ok"
                => /\ DOMAIN requests' = DOMAIN requests
                   /\ workflow_history' = workflow_history ]_vars

\* C37: when two calls of complete_document_revision complete the last two
\* Pending revisions of a request in Pending_Document_Update at the same time,
\* their statements interleaved, the request ends in Pending_Action_Plan and
\* exactly one audit entry Pending_Document_Update to Pending_Action_Plan is
\* written.
C37_ParallelRevisionsLogOnce ==
  ( /\ DOMAIN calls = RevisionCallIds
    /\ \A c \in RevisionCallIds :
         calls[c].op = "complete_document_revision" /\ calls[c].pc = "returned"
    /\ calls[1].document_name # calls[2].document_name )
    => /\ requests[1].status = PENDING_ACTION_PLAN
       /\ Cardinality({ i \in 1..Len(workflow_history) :
                          /\ workflow_history[i].request = 1
                          /\ workflow_history[i].previous_status = PENDING_DOCUMENT_UPDATE
                          /\ workflow_history[i].new_status = PENDING_ACTION_PLAN }) = 1

\* C38: when a call of cft_evaluation takes a request out of
\* Pending_CFT_Evaluation to Pending_Risk_Assessment or Pending_Document_Update,
\* every CFTEvaluation of the request has the decision Approved or
\* Approved_with_Conditions: an evaluation still Pending does not count
\* towards the completion threshold.
C38_NoPendingEvaluationCounts ==
  [][ \A r \in DOMAIN requests :
        ( /\ last'.op = "cft_evaluation" /\ last'.request = r
          /\ requests[r].status = PENDING_CFT_EVALUATION
          /\ requests'[r].status \in { PENDING_RISK_ASSESSMENT, PENDING_DOCUMENT_UPDATE } )
          => \A e \in cft_evaluations' :
               e.request = r => e.decision \in { "Approved", "Approved_with_Conditions" } ]_vars

\* C39: whenever a request is in Pending_Risk_Assessment it has a
\* RiskAssessment that is not Completed and is assigned to the user who
\* registered the request, so complete_risk_assessment by that assignee
\* succeeds from there.
C39_AssessmentWaitsInRiskStep ==
  \A r \in DOMAIN requests :
    requests[r].status = PENDING_RISK_ASSESSMENT
      => /\ \E a \in risk_assessments :
              /\ a.request = r
              /\ a.status # SUB_COMPLETED
              /\ a.assigned_to # None
              /\ a.assigned_to = requests[r].qa_registered_by
         /\ \E actor \in Users : complete_risk_assessment(DB, r, actor).result = "ok"

\* C40: no request is stuck in Pending_CFT_Evaluation: from every reachable
\* state with that status, whatever evaluator list and impact level
\* qa_registration accepted, some sequence of cft_evaluation calls by the
\* assigned evaluators (one call per assigned department suffices, and there
\* are at most two departments) leads to Pending_Risk_Assessment,
\* Pending_Document_Update or Rejected.
C40_CanLeaveCFTEvaluation ==
  \A r \in DOMAIN requests :
    requests[r].status = PENDING_CFT_EVALUATION
      => LET Left(db) == db.requests[r].status \in
                           { PENDING_RISK_ASSESSMENT, PENDING_DOCUMENT_UPDATE, REJECTED }
             Submit(db, e, decision) ==
               cft_evaluation(db, r, e.evaluator, e.department, "Operational",
                              decision, "Low").db
             Assigned == { e \in cft_evaluators : e.request = r }
         IN \E e1 \in Assigned, d1 \in DecisionChoices :
              \/ Left(Submit(DB, e1, d1))
              \/ \E e2 \in Assigned, d2 \in DecisionChoices :
                   Left(Submit(Submit(DB, e1, d1), e2, d2))

====
